---- MODULE Spec2Model ----
(***************************************************************************)
(* A model of the rule-based itinerary planner                             *)
(* (src/itinerary/services.py, ItineraryPlannerService) together with its  *)
(* two request entry points (src/itinerary/views.py).                      *)
(*                                                                         *)
(* Geography.  Every coordinate of the catalog lies on one meridian, so    *)
(* the great-circle (haversine) distance of two points is the absolute     *)
(* difference of their offsets along it.  A coordinate is a sequence:      *)
(* <<>> is a NULL latitude/longitude, <<k>> is the point k km north of the *)
(* placeholder point (12.97, 124.00).                                      *)
(*                                                                         *)
(* Time.  A datetime is the number of minutes since 1900-01-01 00:00 (the  *)
(* date strptime('%H:%M') yields); strftime('%H:%M') renders it as the     *)
(* pair <<HH, MM>>.  A calendar date is a day ordinal.                      *)
(*                                                                         *)
(* travel_time_hours is carried in hundredths of an hour.                  *)
(***************************************************************************)
EXTENDS Integers, Sequences, FiniteSets, TLC

VARIABLES
    pc,                     \* position of the request in its handler
    entry,                  \* "fn": generate_itinerary, "cls": GenerateItineraryView.post
    request,                \* the parsed JSON body
    response,               \* the JsonResponse returned, or NoResponse
    planner,                \* "none" | "init_raised" | "constructed" | "invoked"
    prefs,                  \* TravelPreferences
    trip_start_date,        \* self.trip_start_date
    filtered_destinations,  \* result of _filter_destinations (ids)
    ranked_destinations,    \* result of _score_destinations (pairs <<id, score>>)
    accommodations,         \* selected accommodations (ids)
    clusters,               \* result of _cluster_destinations (lists of ids)
    itinerary,              \* List[DayPlan] under construction
    sched,                  \* locals of _build_daily_itinerary that live across days
    loc,                    \* locals of one iteration of the day loop
    result                  \* the summary of _serialize_itinerary

vars == <<pc, entry, request, response, planner, prefs, trip_start_date,
          filtered_destinations, ranked_destinations,
          accommodations, clusters, itinerary, sched, loc, result>>

----------------------------------------------------------------------------
\* Bounds of the model

MaxDays == 7

Min(a, b) == IF a <= b THEN a ELSE b

Abs(x) == IF x < 0 THEN -x ELSE x

RECURSIVE SumSeq(_)
SumSeq(s) == IF s = <<>> THEN 0 ELSE Head(s) + SumSeq(Tail(s))

Range(s) == {s[i] : i \in 1..Len(s)}

Prefix(s, n) == SubSeq(s, 1, Min(n, Len(s)))

----------------------------------------------------------------------------
\* Static tables of the planner

\* datetime.strptime('HH:MM', '%H:%M')
ParseHM(h, m) == h * 60 + m

\* datetime.strftime('%H:%M')
FormatHM(t) == <<(t \div 60) % 24, t % 60>>

PACE_RULES ==
    [relaxed  |-> [activities_per_day |-> <<2, 3>>, max_daily_travel_time |-> 60,
                   buffer_time |-> 90, earliest_start |-> ParseHM(9, 0),
                   latest_end |-> ParseHM(18, 0)],
     moderate |-> [activities_per_day |-> <<3, 4>>, max_daily_travel_time |-> 120,
                   buffer_time |-> 60, earliest_start |-> ParseHM(8, 0),
                   latest_end |-> ParseHM(20, 0)],
     packed   |-> [activities_per_day |-> <<5, 7>>, max_daily_travel_time |-> 180,
                   buffer_time |-> 30, earliest_start |-> ParseHM(6, 0),
                   latest_end |-> ParseHM(22, 0)]]

Paces == DOMAIN PACE_RULES

INTEREST_MAPPING ==
    [nature        |-> {"nature"},
     beaches       |-> {"nature"},
     adventure     |-> {"adventure", "nature"},
     cultural      |-> {"cultural"},
     historical    |-> {"historical", "cultural"},
     wildlife      |-> {"adventure", "nature"},
     photography   |-> {"nature", "cultural", "historical"},
     relaxation    |-> {"nature"},
     hiking        |-> {"adventure", "nature"},
     water_sports  |-> {"adventure", "nature"},
     local_cuisine |-> {"cultural", "food"},
     shopping      |-> {"shopping", "other"}]

\* budget_hierarchy.get(b, 2)
BudgetLevel(b) ==
    CASE b = "low" -> 1
      [] b = "medium" -> 2
      [] b = "high" -> 3
      [] OTHER -> 2

\* Mutant: only the traveler's own tier is acceptable
AcceptableBudgets_own_tier(b) == {k \in {"low", "medium", "high"} : BudgetLevel(k) = BudgetLevel(b)}

\* [k for k, v in budget_hierarchy.items() if v <= user_budget_level]
AcceptableBudgets(b) == {k \in {"low", "medium", "high"} : BudgetLevel(k) <= BudgetLevel(b)}

----------------------------------------------------------------------------
\* The catalog snapshot (the rows the ORM returns, in Meta.ordering order)

NoCoord == <<>>

Dst(i, cat, coord, dur, fee, budget, wheel, kid, senior, status, active) ==
    [id |-> i, category |-> cat, latitude |-> coord, avg_duration_minutes |-> dur,
     entrance_fee |-> fee, budget_category |-> budget, wheelchair_friendly |-> wheel,
     kid_friendly |-> kid, senior_friendly |-> senior, status |-> status,
     is_active |-> active]

Destinations ==
    << Dst(1, "nature",     <<5>>,   60,  0,   "low",    TRUE,  TRUE,  TRUE,  "active", TRUE),
       Dst(2, "cultural",   <<-10>>, 90,  50,  "low",    TRUE,  FALSE, TRUE,  "active", TRUE),
       Dst(3, "nature",     <<20>>,  120, 100, "medium", FALSE, TRUE,  FALSE, "active", TRUE),
       Dst(4, "food",       <<-28>>, 45,  0,   "low",    TRUE,  TRUE,  TRUE,  "active", TRUE),
       Dst(5, "adventure",  <<50>>,  180, 200, "high",   FALSE, FALSE, FALSE, "active", TRUE),
       Dst(6, "historical", NoCoord, 0,   0,   "low",    TRUE,  TRUE,  TRUE,  "active", TRUE),
       Dst(7, "shopping",   <<8>>,   30,  20,  "low",    TRUE,  TRUE,  TRUE,  "closed", TRUE),
       Dst(8, "nature",     <<100>>, 60,  0,   "low",    TRUE,  TRUE,  TRUE,  "active", TRUE) >>

DestIds == {Destinations[i].id : i \in 1..Len(Destinations)}

Dest(i) == CHOOSE d \in Range(Destinations) : d.id = i

Acc(i, type, coord, budget, wheel, pet, status, active) ==
    [id |-> i, type |-> type, latitude |-> coord, budget_category |-> budget,
     wheelchair_friendly |-> wheel, pet_friendly |-> pet, status |-> status,
     is_active |-> active]

Accommodations ==
    << Acc(1, "hotel",  <<0>>,   "medium", TRUE,  FALSE, "active",   TRUE),
       Acc(2, "inn",    <<25>>,  "low",    FALSE, TRUE,  "active",   TRUE),
       Acc(3, "resort", <<10>>,  "low",    TRUE,  TRUE,  "active",   FALSE),
       Acc(4, "hostel", NoCoord, "high",   TRUE,  TRUE,  "active",   TRUE),
       Acc(5, "hotel",  <<-5>>,  "low",    TRUE,  TRUE,  "inactive", TRUE) >>

Accom(i) == CHOOSE a \in Range(Accommodations) : a.id = i

----------------------------------------------------------------------------
\* GeoMath

\* the placeholder (12.97, 124.00) is the origin of the meridian
PlaceholderCoord == 0

\* float(x.latitude) if x.latitude else 12.97
CoordOr(coord, default) == IF coord # NoCoord THEN coord[1] ELSE default

\* haversine distance in km, for two points of the meridian
_calculate_distance(p, q) == Abs(p - q)

\* int((distance_km / 40) * 60)
_estimate_travel_time(distance_km) == (distance_km * 60) \div 40

----------------------------------------------------------------------------
\* Sorting: list.sort is stable.  The lists sorted are lists of pairs
\* <<id, key>>, ascending by key.  (StableSort binds the prefix, the
\* element and the sorted prefix to values, so that each is evaluated once.)

RECURSIVE InsertStable(_, _)
InsertStable(sorted, x) ==
    IF sorted = <<>> THEN <<x>>
    ELSE IF Head(sorted)[2] <= x[2]
         THEN <<Head(sorted)>> \o InsertStable(Tail(sorted), x)
         ELSE <<x>> \o sorted

RECURSIVE StableSort(_)
StableSort(s) ==
    IF s = <<>> THEN <<>>
    ELSE LET Step(prefix, x) ==
                 CHOOSE r \in {InsertStable(sorted, x) : sorted \in {StableSort(prefix)}} : TRUE
         IN  CHOOSE r \in {Step(prefix, x) : prefix \in {SubSeq(s, 1, Len(s) - 1)},
                                             x \in {s[Len(s)]}} : TRUE

Firsts(pairs) == [i \in 1..Len(pairs) |-> pairs[i][1]]

----------------------------------------------------------------------------
\* PreferenceFilter

\* Mutant: the filter without is_active=True and status='active'
PassesFilter_any_status(p, d) ==
    /\ d.id \notin p.exclude_destination_ids
    /\ d.category \notin p.exclude_categories
    /\ d.budget_category \in {k \in {"low", "medium", "high"} :
                                 (IF k = "low" THEN 1 ELSE IF k = "medium" THEN 2 ELSE 3)
                                 <= (IF p.budget_category = "low" THEN 1
                                     ELSE IF p.budget_category = "high" THEN 3 ELSE 2)}
    /\ (p.has_children => d.kid_friendly)
    /\ (p.has_seniors => d.senior_friendly)
    /\ (p.has_disabilities => d.wheelchair_friendly)

\* Mutant: the filter without senior_friendly=True
PassesFilter_no_seniors(p, d) ==
    /\ d.is_active /\ d.status = "active"
    /\ d.id \notin p.exclude_destination_ids
    /\ d.category \notin p.exclude_categories
    /\ d.budget_category \in {k \in {"low", "medium", "high"} :
                                 (IF k = "low" THEN 1 ELSE IF k = "medium" THEN 2 ELSE 3)
                                 <= (IF p.budget_category = "low" THEN 1
                                     ELSE IF p.budget_category = "high" THEN 3 ELSE 2)}
    /\ (p.has_children => d.kid_friendly)
    /\ (p.has_disabilities => d.wheelchair_friendly)

PassesFilter(p, d) ==
    /\ d.is_active /\ d.status = "active"
    /\ d.id \notin p.exclude_destination_ids
    /\ d.category \notin p.exclude_categories
    /\ d.budget_category \in AcceptableBudgets(p.budget_category)
    /\ (p.has_children => d.kid_friendly)
    /\ (p.has_seniors => d.senior_friendly)
    /\ (p.has_disabilities => d.wheelchair_friendly)

\* Mutant: the filter without the exclusion of exclude_destination_ids
_filter_destinations_no_exclude(p) ==
    LET kept == SelectSeq(Destinations,
                    LAMBDA d : PassesFilter([p EXCEPT !.exclude_destination_ids = {}], d))
    IN  [i \in 1..Len(kept) |-> kept[i].id]

\* the ids of the eligible destinations, in catalog order
_filter_destinations(p) ==
    LET kept == SelectSeq(Destinations, LAMBDA d : PassesFilter(p, d))
    IN  [i \in 1..Len(kept) |-> kept[i].id]

----------------------------------------------------------------------------
\* RelevanceScorer

\* dest.avg_duration_minutes or 90
DurationOf(d) == IF d.avg_duration_minutes # 0 THEN d.avg_duration_minutes ELSE 90

InterestScore(p, d) ==
    10 * Cardinality({i \in 1..Len(p.interests) :
                         /\ p.interests[i] \in DOMAIN INTEREST_MAPPING
                         /\ d.category \in INTEREST_MAPPING[p.interests[i]]})

\* Mutant: the moderate bonus gated by the duration, like the other two
PaceBonus_moderate_gated(p, d) ==
    IF p.pace_preference = "relaxed" /\ DurationOf(d) >= 90 THEN 5
    ELSE IF p.pace_preference = "packed" /\ DurationOf(d) <= 60 THEN 5
    ELSE IF p.pace_preference = "moderate" /\ DurationOf(d) > 60 /\ DurationOf(d) < 90 THEN 3
    ELSE 0

PaceBonus(p, d) ==
    IF p.pace_preference = "relaxed" /\ DurationOf(d) >= 90 THEN 5
    ELSE IF p.pace_preference = "packed" /\ DurationOf(d) <= 60 THEN 5
    ELSE IF p.pace_preference = "moderate" THEN 3
    ELSE 0

Score(p, d) ==
    InterestScore(p, d)
    + (IF d.id \in p.must_visit_ids THEN 50 ELSE 0)
    + PaceBonus(p, d)
    + (IF d.entrance_fee = 0 THEN 2 ELSE 0)

\* the pairs <<id, score>> of the eligible destinations sorted by score, highest
\* first (reverse=True keeps ties in order)
_score_destinations(p, dests) ==
    LET sorted == StableSort([i \in 1..Len(dests) |->
                                 <<dests[i], -Score(p, Dest(dests[i]))>>])
    IN  [i \in 1..Len(sorted) |-> <<sorted[i][1], -sorted[i][2]>>]

----------------------------------------------------------------------------
\* AccommodationSelector

IsActive(a) == a.is_active /\ a.status = "active"

\* Mutant: the lookup by id alone, without is_active=True, status='active'
GetAccommodation_any_status(id) ==
    SelectSeq(Accommodations, LAMBDA a : a.id = id)

\* Accommodation.objects.get(id=..., is_active=True, status='active'):
\* the matching rows (none: DoesNotExist)
GetAccommodation(id) ==
    SelectSeq(Accommodations, LAMBDA a : a.id = id /\ IsActive(a))

AutoFilter(p, a) ==
    /\ IsActive(a)
    /\ a.budget_category \in AcceptableBudgets(p.budget_category)
    /\ (p.accommodation_types # {} => a.type \in p.accommodation_types)
    /\ (p.has_pets => a.pet_friendly)
    /\ (p.has_disabilities => a.wheelchair_friendly)

\* Mutant: a single accommodation whatever the trip length
AccommodationLimit_one(p) == IF p.days <= 3 THEN 1 ELSE 1

\* limit = 1 if self.prefs.days <= 3 else 2
AccommodationLimit(p) == IF p.days <= 3 THEN 1 ELSE 2

\* the ids of the selected accommodations; accommodation_id 0 is None
_select_accommodations(p) ==
    IF ~p.include_accommodation THEN <<>>
    ELSE IF p.accommodation_id # 0 /\ GetAccommodation(p.accommodation_id) # <<>>
    THEN <<GetAccommodation(p.accommodation_id)[1].id>>
    ELSE LET kept == Prefix(SelectSeq(Accommodations, LAMBDA a : AutoFilter(p, a)),
                            AccommodationLimit(p))
         IN  [i \in 1..Len(kept) |-> kept[i].id]

----------------------------------------------------------------------------
\* GeoClusterer.  (The loops bind the state of the next iteration to a value
\* before they go on, so that it is evaluated once.)

ClusterRadius == 30

\* count = self.prefs.days * self.pace_config['activities_per_day'][1]
TopCount(p) == p.days * PACE_RULES[p.pace_preference].activities_per_day[2]

\* float(acc.latitude), float(dest.latitude): TypeError on None
FloatRaises(coord) == coord = NoCoord

\* The inner loop over ranked_destinations for one accommodation.
\* st = [nearby, must_visit_dests, raised]
RECURSIVE NearbyLoop(_, _, _, _)
NearbyLoop(p, acc, ranked, st) ==
    IF ranked = <<>> \/ st.raised THEN st
    ELSE LET dest == Dest(Head(ranked))
             next ==
                 IF dest.id \in p.must_visit_ids
                 THEN IF dest.id \notin Range(st.must_visit_dests)
                      THEN [st EXCEPT !.must_visit_dests = Append(@, dest.id),
                                      !.nearby = Append(@, dest.id)]
                      ELSE st
                 ELSE IF FloatRaises(acc.latitude) \/ FloatRaises(dest.latitude)
                      THEN [st EXCEPT !.raised = TRUE]
                      ELSE IF _calculate_distance(acc.latitude[1], dest.latitude[1])
                                  <= ClusterRadius
                           THEN [st EXCEPT !.nearby = Append(@, dest.id)]
                           ELSE st
         IN  CHOOSE r \in {NearbyLoop(p, acc, rest, n) : rest \in {Tail(ranked)},
                                                         n \in {next}} : TRUE

\* The outer loop over the accommodations.
\* st = [clusters, must_visit_dests, raised]
RECURSIVE ClusterLoop(_, _, _, _)
ClusterLoop(p, accs, ranked, st) ==
    IF accs = <<>> \/ st.raised THEN st
    ELSE LET After(r) ==
                 [clusters |-> IF r.nearby # <<>> THEN Append(st.clusters, r.nearby)
                               ELSE st.clusters,
                  must_visit_dests |-> r.must_visit_dests,
                  raised |-> r.raised]
             nearby_of_acc ==
                 NearbyLoop(p, Accom(Head(accs)), ranked,
                            [nearby |-> <<>>, must_visit_dests |-> st.must_visit_dests,
                             raised |-> FALSE])
         IN  CHOOSE c \in {ClusterLoop(p, rest, ranked, n) :
                              rest \in {Tail(accs)},
                              n \in {After(r) : r \in {nearby_of_acc}}} : TRUE

\* for dest in ranked: if must-visit and dest not in top: top.insert(0, dest)
RECURSIVE EnsureMustVisit(_, _, _)
EnsureMustVisit(p, ranked, top) ==
    IF ranked = <<>> THEN top
    ELSE LET next == IF Head(ranked) \in p.must_visit_ids /\ Head(ranked) \notin Range(top)
                     THEN <<Head(ranked)>> \o top
                     ELSE top
         IN  CHOOSE r \in {EnsureMustVisit(p, rest, n) : rest \in {Tail(ranked)},
                                                         n \in {next}} : TRUE

\* [raised |-> a TypeError left the method, clusters |-> its result otherwise]
_cluster_destinations(p, ranked, accs) ==
    IF accs = <<>>
    THEN [raised |-> FALSE, clusters |-> <<Prefix(ranked, TopCount(p))>>]
    ELSE LET r == ClusterLoop(p, accs, ranked,
                              [clusters |-> <<>>, must_visit_dests |-> <<>>, raised |-> FALSE])
         IN  IF r.raised THEN [raised |-> TRUE, clusters |-> <<>>]
             ELSE IF r.clusters = <<>>
             THEN [raised |-> FALSE,
                   clusters |-> <<EnsureMustVisit(p, ranked, Prefix(ranked, TopCount(p)))>>]
             ELSE [raised |-> FALSE, clusters |-> r.clusters]

----------------------------------------------------------------------------
\* DayScheduler: the pure parts of _build_daily_itinerary

\* self.needs_arrival_travel = self.needs_departure_travel = travel_time_hours > 0
NeedsTravel(p) == p.travel_time_hours > 0

\* Mutant: round(travel_time_hours * 60) in place of int(...)
TravelMinutes_rounded(p) == (p.travel_time_hours * 60 + 50) \div 100

\* int(self.prefs.travel_time_hours * 60), travel_time_hours in hundredths of an hour
TravelMinutes(p) == (p.travel_time_hours * 60) \div 100

\* the arrival takes a full day of its own
FullArrivalDay(p) == NeedsTravel(p) /\ ~p.activity_on_same_day

\* activity_start_day
ActivityStartDay(p) == IF FullArrivalDay(p) THEN 2 ELSE 1

\* activity_end_day
ActivityEndDay(p) == p.days

\* effective_days
EffectiveDays(p) ==
    p.days - (IF FullArrivalDay(p) THEN 1 ELSE 0) - (IF NeedsTravel(p) THEN 1 ELSE 0)

\* Mutant: the rest day counted from day 0, not from activity_start_day
RestDays_no_start(p) ==
    IF EffectiveDays(p) >= 5 THEN {EffectiveDays(p) \div 2} ELSE {}

\* rest_days
RestDays(p) ==
    IF EffectiveDays(p) >= 5
    THEN {ActivityStartDay(p) + (EffectiveDays(p) \div 2)}
    ELSE {}

\* destination_pool: the clusters concatenated
RECURSIVE Flatten(_)
Flatten(cs) == IF cs = <<>> THEN <<>> ELSE Head(cs) \o Flatten(Tail(cs))

\* Mutant: the pool as it is, nothing dropped
Dedup_keep_all(pool, seen) == pool

\* the pool with every id kept at its first occurrence (seen_ids)
RECURSIVE Dedup(_, _)
Dedup(pool, seen) ==
    IF pool = <<>> THEN <<>>
    ELSE IF Head(pool) \in seen THEN Dedup(Tail(pool), seen)
         ELSE <<Head(pool)>> \o Dedup(Tail(pool), seen \cup {Head(pool)})

\* must_visit_dests
MustVisitDests(p, cs) ==
    SelectSeq(Dedup(Flatten(cs), {}), LAMBDA i : i \in p.must_visit_ids)

\* acc_lat, and the start location of a day
AccCoord(acc) == IF acc # 0 THEN CoordOr(Accom(acc).latitude, PlaceholderCoord)
                 ELSE PlaceholderCoord

\* Mutant: other_dests left in pool order
OtherDests_unsorted(p, cs, acc) ==
    SelectSeq(Dedup(Flatten(cs), {}), LAMBDA i : i \notin p.must_visit_ids)

\* other_dests, sorted by distance from the accommodation (nearest first)
OtherDests(p, cs, acc) ==
    LET others == SelectSeq(Dedup(Flatten(cs), {}), LAMBDA i : i \notin p.must_visit_ids)
    IN  Firsts(StableSort([i \in 1..Len(others) |->
            <<others[i], _calculate_distance(AccCoord(acc),
                             CoordOr(Dest(others[i]).latitude, PlaceholderCoord))>>]))

\* Mutant: active_days with the rest day left in
ActiveDays_with_rest(p) ==
    [i \in 1..(ActivityEndDay(p) - ActivityStartDay(p) + 1) |-> ActivityStartDay(p) + i - 1]

\* active_days
ActiveDays(p) ==
    LET ds == [i \in 1..(ActivityEndDay(p) - ActivityStartDay(p) + 1) |->
                  ActivityStartDay(p) + i - 1]
    IN  SelectSeq(ds, LAMBDA d : d \notin RestDays(p))

\* for idx, dest in enumerate(must_visit_dests): day_idx = idx % len(active_days)
RECURSIVE Distribute(_, _, _, _)
Distribute(mv, idx, active_days, per_day) ==
    IF idx >= Len(mv) THEN per_day
    ELSE LET day_num == active_days[(idx % Len(active_days)) + 1]
         IN  Distribute(mv, idx + 1, active_days,
                        [per_day EXCEPT ![day_num] = Append(@, mv[idx + 1])])

\* must_visit_per_day, with the empty list where the dict has no key
MustVisitPerDay(p, mv) ==
    LET active_days == ActiveDays(p)
        empty == [d \in ActivityStartDay(p)..ActivityEndDay(p) |-> <<>>]
    IN  IF mv # <<>> /\ active_days # <<>>
        THEN Distribute(mv, 0, active_days, empty)
        ELSE empty

DayPlan(day_number, date, activities, accommodation, total_travel_time, total_distance, is_rest_day, is_travel_day, day_type) ==
    [day_number |-> day_number, date |-> date, activities |-> activities,
     accommodation |-> accommodation, total_activities |-> Len(activities),
     total_travel_time |-> total_travel_time, total_distance |-> total_distance,
     is_rest_day |-> is_rest_day, is_travel_day |-> is_travel_day, day_type |-> day_type]

\* trip_start_date + timedelta(days=day - 1), rendered
DateOf(start, day) == start + day - 1

\* Mutant: the departure day numbered one past current_day
_create_travel_day_off_by_one(p, start, day_number, current_accommodation, is_arrival) ==
    DayPlan(IF is_arrival THEN day_number ELSE day_number + 1,
            DateOf(start, day_number), <<>>,
            IF is_arrival THEN current_accommodation ELSE 0,
            TravelMinutes(p), 0, FALSE, TRUE,
            IF is_arrival THEN "travel_to" ELSE "travel_from")

_create_travel_day(p, start, day_number, current_accommodation, is_arrival) ==
    DayPlan(day_number, DateOf(start, day_number), <<>>,
            IF is_arrival THEN current_accommodation ELSE 0,
            TravelMinutes(p), 0, FALSE, TRUE,
            IF is_arrival THEN "travel_to" ELSE "travel_from")

\* the DayPlan of a rest day
RestDayPlan(start, current_day, day, current_accommodation) ==
    DayPlan(current_day, DateOf(start, day), <<>>, current_accommodation, 0, 0,
            TRUE, FALSE, "rest")

\* is_first_activity_day, is_last_activity_day
IsFirstActivityDay(p, day) == day = ActivityStartDay(p)

IsLastActivityDay(p, day) == day = ActivityStartDay(p) + EffectiveDays(p) - 1

\* the arrival shares the first activity day
PartialArrivalDay(p, day) ==
    IsFirstActivityDay(p, day) /\ NeedsTravel(p) /\ p.activity_on_same_day

\* num_activities
NumActivities(p, day) ==
    IF PartialArrivalDay(p, day) THEN PACE_RULES[p.pace_preference].activities_per_day[1]
    ELSE IF IsLastActivityDay(p, day)
         THEN PACE_RULES[p.pace_preference].activities_per_day[1]
         ELSE PACE_RULES[p.pace_preference].activities_per_day[2]

\* current_time at the start of a day
DayStartTime(p, day) ==
    IF PartialArrivalDay(p, day) THEN ParseHM(6, 0) + TravelMinutes(p) + 30
    ELSE PACE_RULES[p.pace_preference].earliest_start

\* Mutant: the must-visit test without the daily travel budget
MustVisitRejected_leg_only(p, travel_time, total_travel) ==
    2 * travel_time > 3 * p.max_travel_time

\* the must-visit test: travel_time > max_travel or total_travel + travel_time > max_daily_travel,
\* with max_travel = 1.5 * max_travel_time and max_daily_travel = 1.5 * max_daily_travel_time
MustVisitRejected(p, travel_time, total_travel) ==
    \/ 2 * travel_time > 3 * p.max_travel_time
    \/ 2 * (total_travel + travel_time) > 3 * PACE_RULES[p.pace_preference].max_daily_travel_time

\* the filler tests
FillerTooFar(p, travel_time) == travel_time > p.max_travel_time

FillerOverBudget(p, travel_time, total_travel) ==
    total_travel + travel_time > PACE_RULES[p.pace_preference].max_daily_travel_time

\* the Activity of an accepted destination; t is current_time after the travel
Activity(dest, t, travel_time, distance) ==
    [destination |-> dest.id,
     start_time |-> FormatHM(t),
     end_time |-> FormatHM(t + DurationOf(dest)),
     duration_minutes |-> DurationOf(dest),
     travel_time_from_previous |-> travel_time,
     distance_from_previous |-> distance,
     activity_type |-> "destination"]

\* the locals of a day after dest is accepted
Accept(p, l, dest, distance, travel_time) ==
    [l EXCEPT !.current_time = l.current_time + travel_time + DurationOf(dest)
                                 + PACE_RULES[p.pace_preference].buffer_time,
              !.total_travel = @ + travel_time,
              !.total_distance = @ + distance,
              !.daily_activities = Append(@, Activity(dest, l.current_time + travel_time,
                                                      travel_time, distance)),
              !.last_lat = CoordOr(dest.latitude, PlaceholderCoord),
              !.activities_added = @ + 1]

\* current_time > latest_end
PastLatestEnd(p, l) == l.current_time > PACE_RULES[p.pace_preference].latest_end

\* Mutant: no return journey in the totals
ReturnLeg_none(acc, l) == [time |-> 0, distance |-> 0]

\* the return journey: [time, distance] added to the day's totals
ReturnLeg(acc, l) ==
    IF acc # 0 /\ Accom(acc).latitude # NoCoord /\ l.daily_activities # <<>>
    THEN LET last == Dest(l.daily_activities[Len(l.daily_activities)].destination)
             d == _calculate_distance(CoordOr(last.latitude, l.last_lat),
                                      Accom(acc).latitude[1])
         IN  [time |-> _estimate_travel_time(d), distance |-> d]
    ELSE [time |-> 0, distance |-> 0]

----------------------------------------------------------------------------
\* The request layer (views.py)

\* datetime.strptime(start_date, '%Y-%m-%d'): a start_date is 0 when absent (or
\* empty), the day ordinal n > 0 of a well-formed date, or negative for a string
\* that is no date
DateParses(s) == s > 0

\* the validation of generate_itinerary, in its order; "ok" when it passes
FnValidation(data) ==
    IF data.days < 1 \/ data.days > 14 THEN "Days must be between 1 and 14"
    ELSE IF data.pax < 1 THEN "Number of travelers must be at least 1"
    ELSE IF data.budget_category \notin {"low", "medium", "high"}
         THEN "Budget category must be: low, medium, or high"
    ELSE IF data.pace_preference \notin {"relaxed", "moderate", "packed"}
         THEN "Pace preference must be: relaxed, moderate, or packed"
    ELSE IF data.travel_time_hours < 0 \/ data.travel_time_hours > 2400
         THEN "Travel time must be between 0 and 24 hours"
    ELSE IF data.start_date # 0 /\ ~DateParses(data.start_date)
         THEN "Start date must be in YYYY-MM-DD format"
    ELSE "ok"

\* the validation of GenerateItineraryView.post
ClsValidation(data) ==
    IF data.days < 1 \/ data.days > 14 THEN "Days must be between 1 and 14"
    ELSE IF data.pax < 1 THEN "Number of travelers must be at least 1"
    ELSE IF data.travel_time_hours < 0 \/ data.travel_time_hours > 2400
         THEN "Travel time must be between 0 and 24 hours"
    ELSE IF data.start_date # 0 /\ ~DateParses(data.start_date)
         THEN "Start date must be in YYYY-MM-DD format"
    ELSE "ok"

NoResponse == [success |-> FALSE, status |-> 0, error |-> "none"]

JsonResponse(success, status, error) ==
    [success |-> success, status |-> status, error |-> error]

\* TravelPreferences(...): the fields of the body the planner reads
TravelPreferences(data) == data

\* the values datetime.now() may return
Nows == {20, 21}

\* _parse_start_date
_parse_start_date(p, now) ==
    IF p.start_date # 0 /\ DateParses(p.start_date) THEN p.start_date ELSE now

NoSched ==
    [current_accommodation |-> 0, current_day |-> 1, day |-> 1,
     must_visit_per_day |-> <<>>, other_dests |-> <<>>, other_dest_index |-> 0]

NoLoc ==
    [num_activities |-> 0, daily_activities |-> <<>>, current_time |-> 0, last_lat |-> 0,
     total_travel |-> 0, total_distance |-> 0, activities_added |-> 0, mv_index |-> 0]

NoResult ==
    [total_destinations |-> 0, total_travel_time_minutes |-> 0, total_distance_km |-> 0,
     total_entrance_fees |-> 0]

\* The handler up to the construction of the planner: validation, then
\* ItineraryPlannerService(preferences), whose __init__ looks the pace up in
\* PACE_RULES (KeyError: the handler answers 500) and parses the start date.
HandleRequest(validation) ==
    /\ pc = "request"
    /\ IF validation # "ok"
       THEN /\ response' = JsonResponse(FALSE, 400, validation)
            /\ pc' = "responded"
            /\ UNCHANGED <<planner, prefs, trip_start_date>>
       ELSE /\ prefs' = TravelPreferences(request)
            /\ IF request.pace_preference \notin DOMAIN PACE_RULES
               THEN /\ planner' = "init_raised"
                    /\ response' = JsonResponse(FALSE, 500, "Server error")
                    /\ pc' = "responded"
                    /\ UNCHANGED trip_start_date
               ELSE /\ planner' = "constructed"
                    /\ \E now \in Nows :
                          trip_start_date' = _parse_start_date(request, now)
                    /\ pc' = "generate"
                    /\ UNCHANGED response
    /\ UNCHANGED <<filtered_destinations, ranked_destinations>>
    /\ UNCHANGED <<entry, request, accommodations, clusters, itinerary, sched, loc, result>>

\* views.generate_itinerary
GenerateItineraryFn == entry = "fn" /\ HandleRequest(FnValidation(request))

\* views.GenerateItineraryView.post
GenerateItineraryCls == entry = "cls" /\ HandleRequest(ClsValidation(request))

----------------------------------------------------------------------------
\* ItineraryPlannerService.generate_itinerary, steps 1 to 4

Generate ==
    /\ pc = "generate"
    /\ \E filtered \in {_filter_destinations(prefs)}, selected \in {_select_accommodations(prefs)} :
       \E ranked \in {_score_destinations(prefs, filtered)} :
       \E c \in {_cluster_destinations(prefs, Firsts(ranked), selected)} :
           /\ planner' = "invoked"
           /\ filtered_destinations' = filtered
           /\ ranked_destinations' = ranked
           /\ accommodations' = selected
           /\ IF c.raised
              THEN /\ response' = JsonResponse(FALSE, 500, "Server error")
                   /\ pc' = "responded"
                   /\ UNCHANGED clusters
              ELSE /\ clusters' = c.clusters
                   /\ pc' = "build"
                   /\ UNCHANGED response
    /\ UNCHANGED <<entry, request, prefs, trip_start_date, itinerary, sched, loc, result>>

----------------------------------------------------------------------------
\* _build_daily_itinerary

\* lines 327-407: the arrival travel day, the pools, the distribution
BuildSetup ==
    /\ pc = "build"
    /\ LET acc == IF accommodations # <<>> THEN accommodations[1] ELSE 0
           mv == MustVisitDests(prefs, clusters)
       IN  /\ itinerary' = IF FullArrivalDay(prefs)
                           THEN <<_create_travel_day(prefs, trip_start_date, 1, acc, TRUE)>>
                           ELSE <<>>
           /\ sched' = [current_accommodation |-> acc,
                        current_day |-> ActivityStartDay(prefs),
                        day |-> ActivityStartDay(prefs),
                        must_visit_per_day |-> MustVisitPerDay(prefs, mv),
                        other_dests |-> OtherDests(prefs, clusters, acc),
                        other_dest_index |-> 0]
    /\ pc' = "day_loop"
    /\ UNCHANGED <<filtered_destinations, ranked_destinations>>
    /\ UNCHANGED <<entry, request, response, planner, prefs, trip_start_date,
                   accommodations, clusters, loc, result>>

\* lines 413-424: a rest day
RestDay ==
    /\ pc = "day_loop"
    /\ sched.day <= ActivityEndDay(prefs)
    /\ sched.day \in RestDays(prefs)
    /\ itinerary' = Append(itinerary, RestDayPlan(trip_start_date, sched.current_day,
                                                  sched.day, sched.current_accommodation))
    /\ sched' = [sched EXCEPT !.current_day = @ + 1, !.day = @ + 1]
    /\ UNCHANGED <<filtered_destinations, ranked_destinations>>
    /\ UNCHANGED <<pc, entry, request, response, planner, prefs, trip_start_date,
                   accommodations, clusters, loc, result>>

\* lines 426-465: the start of an activity day
StartDay ==
    /\ pc = "day_loop"
    /\ sched.day <= ActivityEndDay(prefs)
    /\ sched.day \notin RestDays(prefs)
    /\ loc' = [num_activities |-> NumActivities(prefs, sched.day),
               daily_activities |-> <<>>,
               current_time |-> DayStartTime(prefs, sched.day),
               last_lat |-> AccCoord(sched.current_accommodation),
               total_travel |-> 0,
               total_distance |-> 0,
               activities_added |-> 0,
               mv_index |-> 1]
    /\ pc' = "must_visit"
    /\ UNCHANGED <<filtered_destinations, ranked_destinations>>
    /\ UNCHANGED <<entry, request, response, planner, prefs, trip_start_date,
                   accommodations, clusters, itinerary, sched, result>>

\* lines 467-510: one iteration of the must-visit loop, or its end
MustVisitStep ==
    /\ pc = "must_visit"
    /\ LET day_must_visit == sched.must_visit_per_day[sched.day]
       IN  IF loc.mv_index > Len(day_must_visit)
              \/ loc.activities_added >= loc.num_activities
           THEN pc' = "filler" /\ UNCHANGED loc
           ELSE LET dest == Dest(day_must_visit[loc.mv_index])
                    distance == _calculate_distance(loc.last_lat,
                                    CoordOr(dest.latitude, PlaceholderCoord))
                    travel_time == _estimate_travel_time(distance)
                    after == Accept(prefs, loc, dest, distance, travel_time)
                IN  IF MustVisitRejected(prefs, travel_time, loc.total_travel)
                    THEN /\ loc' = [loc EXCEPT !.mv_index = @ + 1]
                         /\ UNCHANGED pc
                    ELSE /\ loc' = [after EXCEPT !.mv_index = @ + 1]
                         /\ pc' = IF PastLatestEnd(prefs, after) THEN "filler"
                                  ELSE "must_visit"
    /\ UNCHANGED <<filtered_destinations, ranked_destinations>>
    /\ UNCHANGED <<entry, request, response, planner, prefs, trip_start_date,
                   accommodations, clusters, itinerary, sched, result>>

\* the condition of the filler loop
FillerLoopRuns ==
    /\ loc.activities_added < loc.num_activities
    /\ sched.other_dest_index < Len(sched.other_dests)

\* Mutant: a filler that is too far is tried again instead of being passed
FillerStep_no_advance ==
    /\ pc = "filler"
    /\ FillerLoopRuns
    /\ LET dest == Dest(sched.other_dests[sched.other_dest_index + 1])
           distance == _calculate_distance(loc.last_lat,
                           CoordOr(dest.latitude, PlaceholderCoord))
           travel_time == _estimate_travel_time(distance)
           after == Accept(prefs, loc, dest, distance, travel_time)
       IN  IF FillerTooFar(prefs, travel_time)
           THEN UNCHANGED <<pc, loc, sched>>
           ELSE IF FillerOverBudget(prefs, travel_time, loc.total_travel)
           THEN /\ pc' = "close"
                /\ UNCHANGED <<sched, loc>>
           ELSE /\ loc' = after
                /\ sched' = [sched EXCEPT !.other_dest_index = @ + 1]
                /\ pc' = IF PastLatestEnd(prefs, after) THEN "close" ELSE "filler"
    /\ UNCHANGED <<filtered_destinations, ranked_destinations>>
    /\ UNCHANGED <<entry, request, response, planner, prefs, trip_start_date,
                   accommodations, clusters, itinerary, result>>

\* Mutant: a filler over the daily budget is passed like one that is too far
FillerStep_budget_skips ==
    /\ pc = "filler"
    /\ FillerLoopRuns
    /\ LET dest == Dest(sched.other_dests[sched.other_dest_index + 1])
           distance == _calculate_distance(loc.last_lat,
                           CoordOr(dest.latitude, PlaceholderCoord))
           travel_time == _estimate_travel_time(distance)
           after == Accept(prefs, loc, dest, distance, travel_time)
       IN  IF FillerTooFar(prefs, travel_time)
           THEN /\ sched' = [sched EXCEPT !.other_dest_index = @ + 1]
                /\ UNCHANGED <<pc, loc>>
           ELSE IF FillerOverBudget(prefs, travel_time, loc.total_travel)
           THEN /\ pc' = "close"
                /\ sched' = [sched EXCEPT !.other_dest_index = @ + 1]
                /\ UNCHANGED loc
           ELSE /\ loc' = after
                /\ sched' = [sched EXCEPT !.other_dest_index = @ + 1]
                /\ pc' = IF PastLatestEnd(prefs, after) THEN "close" ELSE "filler"
    /\ UNCHANGED <<filtered_destinations, ranked_destinations>>
    /\ UNCHANGED <<entry, request, response, planner, prefs, trip_start_date,
                   accommodations, clusters, itinerary, result>>

\* lines 513-556: one iteration of the filler loop
FillerStep ==
    /\ pc = "filler"
    /\ FillerLoopRuns
    /\ LET dest == Dest(sched.other_dests[sched.other_dest_index + 1])
           distance == _calculate_distance(loc.last_lat,
                           CoordOr(dest.latitude, PlaceholderCoord))
           travel_time == _estimate_travel_time(distance)
           after == Accept(prefs, loc, dest, distance, travel_time)
       IN  IF FillerTooFar(prefs, travel_time)
           THEN /\ sched' = [sched EXCEPT !.other_dest_index = @ + 1]
                /\ UNCHANGED <<pc, loc>>
           ELSE IF FillerOverBudget(prefs, travel_time, loc.total_travel)
           THEN /\ pc' = "close"
                /\ UNCHANGED <<sched, loc>>
           ELSE /\ loc' = after
                /\ sched' = [sched EXCEPT !.other_dest_index = @ + 1]
                /\ pc' = IF PastLatestEnd(prefs, after) THEN "close" ELSE "filler"
    /\ UNCHANGED <<filtered_destinations, ranked_destinations>>
    /\ UNCHANGED <<entry, request, response, planner, prefs, trip_start_date,
                   accommodations, clusters, itinerary, result>>

\* lines 558-586: the return journey and the DayPlan of the day
FinishDay ==
    /\ pc = "close" \/ (pc = "filler" /\ ~FillerLoopRuns)
    /\ LET back == ReturnLeg(sched.current_accommodation, loc)
       IN  itinerary' = Append(itinerary,
               DayPlan(sched.current_day, DateOf(trip_start_date, sched.day),
                       loc.daily_activities, sched.current_accommodation,
                       loc.total_travel + back.time, loc.total_distance + back.distance,
                       FALSE, FALSE, "regular"))
    /\ sched' = [sched EXCEPT !.current_day = @ + 1, !.day = @ + 1]
    /\ loc' = NoLoc
    /\ pc' = "day_loop"
    /\ UNCHANGED <<filtered_destinations, ranked_destinations>>
    /\ UNCHANGED <<entry, request, response, planner, prefs, trip_start_date,
                   accommodations, clusters, result>>

\* lines 588-596: the end of the day loop and the departure travel day
Departure ==
    /\ pc = "day_loop"
    /\ sched.day > ActivityEndDay(prefs)
    /\ itinerary' = IF NeedsTravel(prefs)
                    THEN Append(itinerary,
                                _create_travel_day(prefs, trip_start_date, sched.current_day,
                                                   sched.current_accommodation, FALSE))
                    ELSE itinerary
    /\ pc' = "serialize"
    /\ UNCHANGED <<filtered_destinations, ranked_destinations>>
    /\ UNCHANGED <<entry, request, response, planner, prefs, trip_start_date,
                   accommodations, clusters, sched, loc, result>>

----------------------------------------------------------------------------
\* ItinerarySerializer, and the handler's answer

\* the activities of the days, in order
RECURSIVE ActivitiesOf(_)
ActivitiesOf(days) ==
    IF days = <<>> THEN <<>> ELSE Head(days).activities \o ActivitiesOf(Tail(days))

\* Mutant: the travel time summed over the days that are not travel days
_serialize_itinerary_no_travel_days(p, it) ==
    LET all == ActivitiesOf(it)
        visits == SelectSeq(it, LAMBDA d : ~d.is_rest_day /\ ~d.is_travel_day)
    IN  [total_destinations |-> Len(ActivitiesOf(visits)),
         total_travel_time_minutes |->
             SumSeq([i \in 1..Len(it) |->
                        IF it[i].is_travel_day THEN 0 ELSE it[i].total_travel_time]),
         total_distance_km |->
             SumSeq([i \in 1..Len(it) |->
                        IF it[i].is_travel_day THEN 0 ELSE it[i].total_distance]),
         total_entrance_fees |->
             SumSeq([i \in 1..Len(all) |-> Dest(all[i].destination).entrance_fee * p.pax])]

_serialize_itinerary(p, it) ==
    LET all == ActivitiesOf(it)
        visits == SelectSeq(it, LAMBDA d : ~d.is_rest_day /\ ~d.is_travel_day)
    IN  [total_destinations |-> Len(ActivitiesOf(visits)),
         total_travel_time_minutes |->
             SumSeq([i \in 1..Len(it) |-> it[i].total_travel_time]),
         total_distance_km |->
             SumSeq([i \in 1..Len(it) |->
                        IF it[i].is_travel_day THEN 0 ELSE it[i].total_distance]),
         total_entrance_fees |->
             SumSeq([i \in 1..Len(all) |-> Dest(all[i].destination).entrance_fee * p.pax])]

Serialize ==
    /\ pc = "serialize"
    /\ result' = _serialize_itinerary(prefs, itinerary)
    /\ response' = JsonResponse(TRUE, 200, "none")
    /\ pc' = "responded"
    /\ UNCHANGED <<filtered_destinations, ranked_destinations>>
    /\ UNCHANGED <<entry, request, planner, prefs, trip_start_date, accommodations,
                   clusters, itinerary, sched, loc>>

----------------------------------------------------------------------------
\* The requests of the model

BaseData ==
    [days |-> 3, pax |-> 2, budget_category |-> "medium", pace_preference |-> "moderate",
     travel_time_hours |-> 0, start_date |-> 10, interests |-> <<"nature", "photography">>,
     has_children |-> FALSE, has_seniors |-> FALSE, has_disabilities |-> FALSE,
     has_pets |-> FALSE, include_accommodation |-> TRUE, accommodation_types |-> {},
     max_travel_time |-> 120, must_visit_ids |-> {}, exclude_destination_ids |-> {6},
     exclude_categories |-> {}, accommodation_id |-> 0, activity_on_same_day |-> TRUE]

\* travel_time_hours (0, or 1.33: 79 minutes) and activity_on_same_day, which is
\* read only when travel_time_hours > 0
ArrivalChoices ==
    {<<0, TRUE>>, <<133, TRUE>>, <<133, FALSE>>}

MustVisitChoices == {{}, {5, 8}, {1, 2, 3}, {2, 5, 7}}

\* include_accommodation, accommodation_id
AccommodationChoices == {<<FALSE, 0>>, <<TRUE, 0>>, <<TRUE, 3>>, <<TRUE, 4>>}

\* valid requests that vary what the scheduler reads
PlannerRequests ==
    {[BaseData EXCEPT !.days = d, !.pace_preference = pace,
                      !.travel_time_hours = arr[1], !.activity_on_same_day = arr[2],
                      !.budget_category = b, !.must_visit_ids = mv,
                      !.max_travel_time = mtt,
                      !.include_accommodation = ac[1], !.accommodation_id = ac[2],
                      !.exclude_destination_ids = ex, !.has_disabilities = dis] :
        d \in 1..MaxDays, pace \in Paces, arr \in ArrivalChoices,
        b \in {"low", "medium", "high"}, mv \in MustVisitChoices, mtt \in {20, 120},
        ac \in AccommodationChoices, ex \in {{6}, {}, DestIds}, dis \in BOOLEAN}

\* requests that vary what the validation reads
BoundaryRequests ==
    {[BaseData EXCEPT !.days = d, !.pax = px, !.budget_category = b,
                      !.pace_preference = pace, !.travel_time_hours = t,
                      !.start_date = sd] :
        d \in {0, 1, 14, 15}, px \in {0, 1}, b \in {"low", "medium", "high", "luxury"},
        pace \in Paces \cup {"frantic"}, t \in {-50, 0, 2400, 2450}, sd \in {-1, 0, 10}}

\* requests that vary what the accommodation selector reads
AccommodationRequests ==
    {[BaseData EXCEPT !.days = d, !.budget_category = b, !.accommodation_id = id,
                      !.include_accommodation = inc, !.accommodation_types = ty,
                      !.has_pets = pets, !.has_disabilities = dis] :
        d \in {3, 4}, b \in {"low", "medium", "high"}, id \in {0, 1, 2, 3, 5, 9},
        inc \in BOOLEAN, ty \in {{}, {"hotel"}, {"inn", "resort", "hostel"}},
        pets \in BOOLEAN, dis \in BOOLEAN}

\* valid requests that arrive late on the first day and have activities on it
LateArrivalRequests ==
    {[BaseData EXCEPT !.days = d, !.pace_preference = pace, !.travel_time_hours = t,
                      !.must_visit_ids = mv] :
        d \in {1, 2}, pace \in Paces, t \in {900, 1700, 2400}, mv \in {{}, {1}, {1, 2}}}

\* interests of the request body
InterestChoices ==
    {<<>>, <<"nature", "photography">>, <<"hiking", "hiking", "local_cuisine", "surfing">>}

\* requests that vary what the filter and the scorer read
FilterRequests ==
    {[BaseData EXCEPT !.budget_category = b, !.pace_preference = pace,
                      !.has_children = kids, !.has_seniors = sen,
                      !.has_disabilities = dis, !.exclude_categories = exc,
                      !.exclude_destination_ids = ex, !.interests = ints,
                      !.must_visit_ids = mv] :
        b \in {"low", "medium", "high"}, pace \in Paces, kids \in BOOLEAN,
        sen \in BOOLEAN, dis \in BOOLEAN, exc \in {{}, {"nature"}, {"food", "cultural"}},
        ex \in {{}, {1, 6}}, ints \in InterestChoices, mv \in {{}, {2, 5, 7}}}

Init ==
    /\ pc = "request"
    /\ \/ entry = "fn" /\ request \in PlannerRequests \cup AccommodationRequests
                                       \cup FilterRequests \cup LateArrivalRequests
       \/ entry \in {"fn", "cls"} /\ request \in BoundaryRequests
    /\ response = NoResponse
    /\ planner = "none"
    /\ prefs = BaseData
    /\ trip_start_date = 0
    /\ filtered_destinations = <<>>
    /\ ranked_destinations = <<>>
    /\ accommodations = <<>>
    /\ clusters = <<>>
    /\ itinerary = <<>>
    /\ sched = NoSched
    /\ loc = NoLoc
    /\ result = NoResult

Next ==
    \/ GenerateItineraryFn
    \/ GenerateItineraryCls
    \/ Generate
    \/ BuildSetup
    \/ RestDay
    \/ StartDay
    \/ MustVisitStep
    \/ FillerStep
    \/ FinishDay
    \/ Departure
    \/ Serialize

Spec == Init /\ [][Next]_vars

\* the requests of the runs checked for termination: short, middle and longest
\* trips of every pace, arrival, must-visit and accommodation choice, with a
\* max_travel_time that rejects every candidate and one that does not, and the
\* requests of both handlers that the validation reads
TerminationRequests ==
    {r \in PlannerRequests :
        /\ r.days \in {1, 3, MaxDays}
        /\ r.budget_category = "low" /\ ~r.has_disabilities
        /\ r.exclude_destination_ids # DestIds
        /\ r.must_visit_ids # {2, 5, 7}}
    \cup {r \in BoundaryRequests : r.pax = 1 /\ r.travel_time_hours <= 0}

FairInit == Init /\ request \in TerminationRequests

\* The handler runs in one thread of the server and is not preempted for ever:
\* a step that can be taken is taken.
FairSpec == FairInit /\ [][Next]_vars /\ WF_vars(Next)

----------------------------------------------------------------------------
\* Vocabulary of the properties

\* the handler answered with an itinerary
Returned == pc = "responded" /\ response.success

\* generate_itinerary of the planner ran to its end, one way or the other
PlannerFinished == pc = "responded" /\ planner = "invoked"

\* the hard filter as the specification words it
HardEligible(p, d) ==
    /\ d.is_active /\ d.status = "active"
    /\ d.id \notin p.exclude_destination_ids
    /\ d.category \notin p.exclude_categories
    /\ BudgetLevel(d.budget_category) <= BudgetLevel(p.budget_category)
    /\ (p.has_children => d.kid_friendly)
    /\ (p.has_seniors => d.senior_friendly)
    /\ (p.has_disabilities => d.wheelchair_friendly)

\* the number of Activities of the itinerary that visit destination id
TimesScheduled(id) ==
    Len(SelectSeq(ActivitiesOf(itinerary), LAMBDA a : a.destination = id))

\* sum of travel_time_from_previous over the activities of a DayPlan
LegSum(d) == SumSeq([k \in 1..Len(d.activities) |-> d.activities[k].travel_time_from_previous])

HasMustVisit(d) ==
    \E k \in 1..Len(d.activities) : d.activities[k].destination \in prefs.must_visit_ids

\* the preferences ask for origin travel, and for a day of its own for the arrival
OriginTravel == prefs.travel_time_hours > 0

ArrivalOwnDay == OriginTravel /\ ~prefs.activity_on_same_day

\* the active-day count and the first activity day, as the specification words them
ActiveCount ==
    IF ~OriginTravel THEN prefs.days
    ELSE IF prefs.activity_on_same_day THEN prefs.days - 1 ELSE prefs.days - 2

FirstActiveDay == IF ArrivalOwnDay THEN 2 ELSE 1

DayTypes == {"travel_to", "travel_from", "rest", "regular"}

RestIndexes == {i \in 1..Len(itinerary) : itinerary[i].is_rest_day}

NonTravelIndexes == {i \in 1..Len(itinerary) : ~itinerary[i].is_travel_day}

AllDaysEmpty ==
    \A i \in 1..Len(itinerary) :
        itinerary[i].activities = <<>> /\ itinerary[i].total_activities = 0

----------------------------------------------------------------------------
\* C1: every must-visit destination that passes the hard filter is the
\* destination of exactly one Activity of the returned itinerary.
C1_MustVisitExactlyOnce ==
    Returned =>
        \A id \in prefs.must_visit_ids \cap DestIds :
            HardEligible(prefs, Dest(id)) => TimesScheduled(id) = 1

\* C2: the itinerary has days DayPlans when travel_time_hours = 0 or
\* activity_on_same_day holds, and days + 2 otherwise.
C2_DayPlanCount ==
    Returned =>
        Len(itinerary) = IF ~OriginTravel \/ prefs.activity_on_same_day
                         THEN prefs.days ELSE prefs.days + 2

\* C3: the DayPlans are numbered 1, 2, ..., N in order, every day number from 1
\* to the requested trip length has exactly one DayPlan, and every day_type is
\* one of travel_to, travel_from, rest, regular.
C3_DayNumbersContiguous ==
    /\ \A i \in 1..Len(itinerary) :
          itinerary[i].day_number = i /\ itinerary[i].day_type \in DayTypes
    /\ Returned =>
          \A n \in 1..prefs.days :
              Cardinality({i \in 1..Len(itinerary) : itinerary[i].day_number = n}) = 1

\* a returned itinerary with an arrival day, a rest day and a departure day
C3_Witness ==
    /\ Returned
    /\ itinerary[1].day_type = "travel_to"
    /\ itinerary[Len(itinerary)].day_type = "travel_from"
    /\ RestIndexes # {}

\* C4: on every regular DayPlan the sum of travel_time_from_previous is at most
\* 1.5 x the pace's max_daily_travel_time, and at most max_daily_travel_time on
\* a day without a must-visit activity.
C4_DailyTravelBudget ==
    \A i \in 1..Len(itinerary) :
        itinerary[i].day_type = "regular" =>
            /\ 2 * LegSum(itinerary[i])
                  <= 3 * PACE_RULES[prefs.pace_preference].max_daily_travel_time
            /\ ~HasMustVisit(itinerary[i]) =>
                  LegSum(itinerary[i])
                      <= PACE_RULES[prefs.pace_preference].max_daily_travel_time

\* a must-visit day that uses the relaxation, and a filler day with travel
C4_Witness ==
    /\ \E i \in 1..Len(itinerary) :
          /\ itinerary[i].day_type = "regular" /\ HasMustVisit(itinerary[i])
          /\ LegSum(itinerary[i]) > PACE_RULES[prefs.pace_preference].max_daily_travel_time
    /\ \E i \in 1..Len(itinerary) :
          /\ itinerary[i].day_type = "regular" /\ ~HasMustVisit(itinerary[i])
          /\ LegSum(itinerary[i]) > 0

\* C5: with A the active-day count and S the first activity day, a returned
\* itinerary has exactly one rest day, numbered S + (A div 2), without
\* activities and flagged is_rest_day, when A >= 5, and no rest day when A < 5.
C5_RestDay ==
    Returned =>
        IF ActiveCount >= 5
        THEN /\ Cardinality(RestIndexes) = 1
             /\ \A i \in RestIndexes :
                   /\ itinerary[i].day_number = FirstActiveDay + (ActiveCount \div 2)
                   /\ itinerary[i].activities = <<>>
                   /\ itinerary[i].total_activities = 0
                   /\ itinerary[i].day_type = "rest"
        ELSE /\ RestIndexes = {}
             /\ \A i \in 1..Len(itinerary) : itinerary[i].day_type # "rest"

\* seven days without origin travel: the rest day is day 4
C5_Witness ==
    /\ Returned
    /\ prefs.days = 7 /\ ~OriginTravel
    /\ itinerary[4].is_rest_day
    /\ itinerary[3].activities # <<>>

\* C6: the number of non-travel DayPlans is the active-day count: days, days - 1
\* (same-day arrival) or days - 2 (arrival on a day of its own).
C6_NonTravelDayCount ==
    Returned => Cardinality(NonTravelIndexes) = ActiveCount

\* C7: travel days have a fixed shape and position.
C7_TravelDays ==
    Returned =>
        /\ ArrivalOwnDay =>
              /\ itinerary[1].day_type = "travel_to"
              /\ itinerary[1].is_travel_day
              /\ itinerary[1].activities = <<>>
              /\ itinerary[1].accommodation =
                     (IF accommodations # <<>> THEN accommodations[1] ELSE 0)
              /\ itinerary[1].total_travel_time * 100 <= prefs.travel_time_hours * 60
              /\ prefs.travel_time_hours * 60 < (itinerary[1].total_travel_time + 1) * 100
              /\ prefs.days >= 2 => itinerary[2].day_type = "regular"
        /\ OriginTravel =>
              /\ itinerary[Len(itinerary)].day_type = "travel_from"
              /\ itinerary[Len(itinerary)].activities = <<>>
        /\ \A i \in 1..Len(itinerary) :
              /\ itinerary[i].is_travel_day
                    <=> itinerary[i].day_type \in {"travel_to", "travel_from"}
              /\ itinerary[i].is_travel_day =>
                    \/ i = 1 /\ ArrivalOwnDay /\ itinerary[i].day_type = "travel_to"
                    \/ i = Len(itinerary) /\ OriginTravel
                          /\ itinerary[i].day_type = "travel_from"

\* an arrival day with the accommodation checked in, activities from day 2 on
C7_Witness ==
    /\ Returned
    /\ ArrivalOwnDay
    /\ itinerary[1].accommodation # 0
    /\ itinerary[1].total_travel_time = 79
    /\ Len(itinerary) >= 3
    /\ itinerary[2].activities # <<>>

\* the request breaks a rule of the boundary validation
InvalidRequest ==
    \/ request.days < 1 \/ request.days > 14
    \/ request.pax < 1
    \/ request.budget_category \notin {"low", "medium", "high"}
    \/ request.pace_preference \notin {"relaxed", "moderate", "packed"}
    \/ request.travel_time_hours < 0 \/ request.travel_time_hours > 2400
    \/ request.start_date < 0

\* C8: at both entry points an invalid request is answered with success = false
\* and an error message, and the planner is never constructed or invoked for it.
C8_InvalidRequestRejected ==
    (InvalidRequest /\ pc # "request") =>
        /\ pc = "responded"
        /\ ~response.success /\ response.error # "none"
        /\ planner = "none"

\* no destination of the catalog passes the hard filter
NoEligibleDestination ==
    \A i \in 1..Len(Destinations) : ~HardEligible(prefs, Destinations[i])

\* accommodation was asked for and none was selected
NoEligibleAccommodation == prefs.include_accommodation /\ accommodations = <<>>

\* the clustering returned (one cluster at least) and its clusters are all empty
NoClusteredDestination == clusters # <<>> /\ Flatten(clusters) = <<>>

WellFormed ==
    \A i \in 1..Len(itinerary) :
        /\ itinerary[i].day_number = i
        /\ itinerary[i].day_type \in DayTypes
        /\ itinerary[i].total_activities = Len(itinerary[i].activities)

\* C9, as claimed: with no eligible destination, no eligible accommodation or
\* no clustered destination, the run returns an itinerary all of whose DayPlans
\* are empty.
C9_SparseRunsAreEmpty ==
    (PlannerFinished
        /\ (NoEligibleDestination \/ NoEligibleAccommodation \/ NoClusteredDestination)) =>
        /\ response.success
        /\ WellFormed
        /\ Len(itinerary) >= prefs.days
        /\ AllDaysEmpty

\* C9, amended: such a run returns a well-formed itinerary without raising; its
\* DayPlans are all empty when no destination is eligible or clustered, while
\* with no eligible accommodation the eligible destinations are still scheduled.
C9_SparseRunsReturn ==
    (PlannerFinished
        /\ (NoEligibleDestination \/ NoEligibleAccommodation \/ NoClusteredDestination)) =>
        /\ response.success
        /\ WellFormed
        /\ Len(itinerary) >= prefs.days
        /\ (NoEligibleDestination \/ NoClusteredDestination) => AllDaysEmpty

\* no destination is eligible, an accommodation is selected: empty days are returned
C9_Witness ==
    /\ Returned
    /\ NoEligibleDestination
    /\ prefs.must_visit_ids # {}
    /\ accommodations # <<>>
    /\ Len(itinerary) >= 3
    /\ AllDaysEmpty

\* an active record with the requested accommodation id exists
RequestedAccommodationActive ==
    \E i \in 1..Len(Accommodations) :
        /\ Accommodations[i].id = prefs.accommodation_id
        /\ Accommodations[i].is_active
        /\ Accommodations[i].status = "active"

\* C10: when accommodation is included and accommodation_id names no active
\* record, the selection returns (it does not raise) exactly what it returns for
\* the same preferences without an accommodation_id.
C10_FallbackToAutomatic ==
    (planner = "invoked" /\ prefs.include_accommodation /\ prefs.accommodation_id # 0
        /\ ~RequestedAccommodationActive) =>
        accommodations = _select_accommodations([prefs EXCEPT !.accommodation_id = 0])

\* an inactive record is requested and the automatic selection supplies another
C10_Witness ==
    /\ planner = "invoked"
    /\ prefs.include_accommodation
    /\ prefs.accommodation_id = 3
    /\ ~RequestedAccommodationActive
    /\ accommodations # <<>>

----------------------------------------------------------------------------
\* The filter

\* the tiers low < medium < high
Tier(b) == IF b = "low" THEN 1 ELSE IF b = "medium" THEN 2 ELSE 3

\* the planner ran the filter for a traveler of one of the three tiers
FilteredForTier == planner = "invoked" /\ prefs.budget_category \in {"low", "medium", "high"}

\* C11: _filter_destinations returns exactly the catalog destinations that are
\* active with status 'active', not excluded by id or by category, of a budget
\* tier not above the traveler's, and kid-, senior- and wheelchair-friendly when
\* the traveler has children, seniors, disabilities: none else, none missing.
\* (The traveler's tier is one of low, medium, high.)
C11_FilterExact ==
    FilteredForTier =>
        /\ \A i \in 1..Len(Destinations) :
              LET d == Destinations[i]
              IN  (d.id \in Range(filtered_destinations)) <=>
                     /\ d.is_active /\ d.status = "active"
                     /\ d.id \notin prefs.exclude_destination_ids
                     /\ d.category \notin prefs.exclude_categories
                     /\ Tier(d.budget_category) <= Tier(prefs.budget_category)
                     /\ (prefs.has_children => d.kid_friendly)
                     /\ (prefs.has_seniors => d.senior_friendly)
                     /\ (prefs.has_disabilities => d.wheelchair_friendly)
        /\ Range(filtered_destinations) \subseteq DestIds
        /\ Cardinality(Range(filtered_destinations)) = Len(filtered_destinations)

\* children, seniors and an excluded category: some destinations pass, others
\* fail on the budget, on a flag, on the category and on the status
C11_Witness ==
    /\ planner = "invoked"
    /\ prefs.has_children /\ prefs.has_seniors /\ ~prefs.has_disabilities
    /\ prefs.exclude_categories = {"food", "cultural"}
    /\ prefs.budget_category = "medium"
    /\ Range(filtered_destinations) = {1, 6, 8}

\* the accommodations the automatic selection may take
AutoEligible(p) ==
    {Accommodations[i].id : i \in {j \in 1..Len(Accommodations) : AutoFilter(p, Accommodations[j])}}

\* C12: with the catalog and the other preferences fixed, the eligible
\* destinations (and the automatically eligible accommodations) of a budget
\* tier are among those of every higher tier.
C12_BudgetMonotone ==
    FilteredForTier =>
        \A b \in {"low", "medium", "high"} :
            Tier(prefs.budget_category) <= Tier(b) =>
                LET raised == [prefs EXCEPT !.budget_category = b]
                IN  /\ Range(filtered_destinations) \subseteq Range(_filter_destinations(raised))
                    /\ AutoEligible(prefs) \subseteq AutoEligible(raised)

\* a low budget whose eligible sets grow with the tier
C12_Witness ==
    /\ planner = "invoked"
    /\ prefs.budget_category = "low"
    /\ filtered_destinations # <<>>
    /\ Range(filtered_destinations) # Range(_filter_destinations([prefs EXCEPT !.budget_category = "medium"]))
    /\ Range(_filter_destinations([prefs EXCEPT !.budget_category = "medium"]))
           # Range(_filter_destinations([prefs EXCEPT !.budget_category = "high"]))
    /\ AutoEligible(prefs) # {}
    /\ AutoEligible(prefs) # AutoEligible([prefs EXCEPT !.budget_category = "high"])

----------------------------------------------------------------------------
\* The scorer

\* the number of entries of interests whose mapped categories hold the category
MatchingInterests(interests, category) ==
    Len(SelectSeq(interests, LAMBDA x : x \in DOMAIN INTEREST_MAPPING
                                        /\ category \in INTEREST_MAPPING[x]))

\* the visit duration of a destination: the stored one, 90 when none is stored
VisitDuration(d) == IF d.avg_duration_minutes = 0 THEN 90 ELSE d.avg_duration_minutes

\* the score as the specification words it
ClaimedScore(p, d) ==
    10 * MatchingInterests(p.interests, d.category)
    + (IF d.id \in p.must_visit_ids THEN 50 ELSE 0)
    + (CASE p.pace_preference = "relaxed" /\ VisitDuration(d) >= 90 -> 5
         [] p.pace_preference = "packed" /\ VisitDuration(d) <= 60 -> 5
         [] p.pace_preference = "moderate" -> 3
         [] OTHER -> 0)
    + (IF d.entrance_fee = 0 THEN 2 ELSE 0)

\* the position of an id in the filtered list
FilterPosition(id) == CHOOSE i \in 1..Len(filtered_destinations) : filtered_destinations[i] = id

\* C13: _score_destinations pairs every eligible destination with 10 per matching
\* entry of interests + 50 if must-visit + the pace bonus + 2 if the entrance is
\* free, and returns the pairs by score descending, equal scores in filter order.
C13_ScoreAndOrder ==
    planner = "invoked" =>
        /\ Len(ranked_destinations) = Len(filtered_destinations)
        /\ {ranked_destinations[i][1] : i \in 1..Len(ranked_destinations)}
              = Range(filtered_destinations)
        /\ \A i \in 1..Len(ranked_destinations) :
              ranked_destinations[i][2]
                 = ClaimedScore(prefs, Dest(ranked_destinations[i][1]))
        /\ \A i, j \in 1..Len(ranked_destinations) :
              i < j =>
                 /\ ranked_destinations[i][2] >= ranked_destinations[j][2]
                 /\ ranked_destinations[i][2] = ranked_destinations[j][2]
                       => FilterPosition(ranked_destinations[i][1])
                             < FilterPosition(ranked_destinations[j][1])

\* a repeated interest, a must-visit boost, a tie and a reordering
C13_Witness ==
    /\ planner = "invoked"
    /\ prefs.interests = <<"hiking", "hiking", "local_cuisine", "surfing">>
    /\ prefs.must_visit_ids # {}
    /\ Len(ranked_destinations) >= 4
    /\ Firsts(ranked_destinations) # filtered_destinations
    /\ \E i \in 1..Len(ranked_destinations) : ranked_destinations[i][2] >= 70
    /\ \E i \in 1..Len(ranked_destinations) - 1 :
          ranked_destinations[i][2] = ranked_destinations[i + 1][2]

----------------------------------------------------------------------------
\* The accommodation selector

\* the catalog position of an accommodation id
CatalogPosition(id) == CHOOSE i \in 1..Len(Accommodations) : Accommodations[i].id = id

\* the record is active, within the budget tier, of an allowed type when types
\* are given, pet-friendly for pets and wheelchair-friendly for disabilities
AutoCandidate(a) ==
    /\ a.is_active /\ a.status = "active"
    /\ Tier(a.budget_category) <= Tier(prefs.budget_category)
    /\ (prefs.accommodation_types # {} => a.type \in prefs.accommodation_types)
    /\ (prefs.has_pets => a.pet_friendly)
    /\ (prefs.has_disabilities => a.wheelchair_friendly)

\* accommodations is the first n candidates, in catalog order
FirstCandidates(n) ==
    /\ \A i \in 1..Len(accommodations) :
          /\ accommodations[i] \in {Accommodations[k].id : k \in 1..Len(Accommodations)}
          /\ AutoCandidate(Accom(accommodations[i]))
    /\ \A i, j \in 1..Len(accommodations) :
          i < j => CatalogPosition(accommodations[i]) < CatalogPosition(accommodations[j])
    /\ \A k \in 1..Len(Accommodations) :
          AutoCandidate(Accommodations[k]) /\ Accommodations[k].id \notin Range(accommodations)
             => /\ Len(accommodations) = n
                /\ \A i \in 1..Len(accommodations) : CatalogPosition(accommodations[i]) < k
    /\ Len(accommodations) <= n

\* C14: _select_accommodations returns nothing when accommodation is not
\* included; the record accommodation_id names, alone, when it is active,
\* whatever the other filters say; otherwise the first 1 (days <= 3) or 2
\* (days > 3) records in catalog order that pass the automatic filters.
\* (The traveler's tier is one of low, medium, high.)
C14_Selection ==
    FilteredForTier =>
        IF ~prefs.include_accommodation THEN accommodations = <<>>
        ELSE IF RequestedAccommodationActive THEN accommodations = <<prefs.accommodation_id>>
        ELSE FirstCandidates(IF prefs.days <= 3 THEN 1 ELSE 2)

\* a requested record that fails the budget, type and pet filters is returned
C14_Witness ==
    /\ planner = "invoked"
    /\ prefs.include_accommodation
    /\ prefs.accommodation_id = 1 /\ prefs.budget_category = "low"
    /\ prefs.has_pets /\ prefs.accommodation_types = {"inn", "resort", "hostel"}
    /\ accommodations = <<1>>

----------------------------------------------------------------------------
\* The clusterer

\* the clustering raised and the handler answered with a server error
ClusteringRaised == planner = "invoked" /\ pc = "responded" /\ ~response.success

\* the destination lies within 30 km of the accommodation
WithinRadius(acc, id) == Abs(Accom(acc).latitude[1] - Dest(id).latitude[1]) <= 30

\* the cluster the specification gives the k-th selected accommodation, given
\* the must-visit destinations that earlier clusters claimed
RECURSIVE ClaimedClusters(_, _)
ClaimedClusters(k, claimed) ==
    IF k > Len(accommodations) THEN <<>>
    ELSE LET cluster == SelectSeq(Firsts(ranked_destinations),
                            LAMBDA id : IF id \in prefs.must_visit_ids
                                        THEN id \notin claimed
                                        ELSE WithinRadius(accommodations[k], id))
         IN  (IF cluster = <<>> THEN <<>> ELSE <<cluster>>)
             \o ClaimedClusters(k + 1, claimed \cup Range(cluster))

\* the first days x (mid-trip activities per day) scored destinations
TopN ==
    SubSeq(Firsts(ranked_destinations), 1,
           Min(prefs.days * PACE_RULES[prefs.pace_preference].activities_per_day[2],
               Len(ranked_destinations)))

\* the eligible must-visit destinations that the top-N leaves out
MissingMustVisit == (Range(Firsts(ranked_destinations)) \cap prefs.must_visit_ids) \ Range(TopN)

\* C15: _cluster_destinations returns the top-N cluster when no accommodation
\* is selected; otherwise one cluster per accommodation, the empty ones dropped,
\* of the must-visit destinations no earlier cluster claimed and of the other
\* destinations within 30 km; and, when no cluster is non-empty, the top-N
\* cluster with the missing must-visit destinations put in front.
C15_Clusters ==
    planner = "invoked" =>
        /\ ~ClusteringRaised
        /\ IF accommodations = <<>> THEN clusters = <<TopN>>
           ELSE IF ClaimedClusters(1, {}) # <<>> THEN clusters = ClaimedClusters(1, {})
           ELSE /\ Len(clusters) = 1
                /\ Len(clusters[1]) = Len(TopN) + Cardinality(MissingMustVisit)
                /\ SubSeq(clusters[1], Cardinality(MissingMustVisit) + 1, Len(clusters[1])) = TopN
                /\ Range(clusters[1]) = Range(TopN) \cup MissingMustVisit

----------------------------------------------------------------------------
\* The summary

\* the pairs <<day, position>> of the scheduled activities
ScheduledSlots ==
    {<<i, k>> \in (1..Len(itinerary)) \X (1..7) : k <= Len(itinerary[i].activities)}

\* the sum of f over a finite set
RECURSIVE SumOver(_, _)
SumOver(set, f) ==
    IF set = {} THEN 0
    ELSE LET x == CHOOSE y \in set : TRUE IN f[x] + SumOver(set \ {x}, f)

\* C16: in the summary, total_destinations is the number of activities of the
\* days that are neither rest nor travel days and the number of distinct
\* destinations scheduled; total_entrance_fees is the sum of fee x pax over the
\* scheduled activities; total_distance_km sums the distance of the non-travel
\* days; total_travel_time_minutes sums the travel time of every day.
C16_Summary ==
    Returned =>
        /\ result.total_destinations
              = Cardinality({s \in ScheduledSlots : /\ ~itinerary[s[1]].is_rest_day
                                                    /\ ~itinerary[s[1]].is_travel_day})
        /\ result.total_destinations
              = Cardinality({itinerary[s[1]].activities[s[2]].destination : s \in ScheduledSlots})
        /\ result.total_entrance_fees
              = SumOver(ScheduledSlots,
                        [s \in ScheduledSlots |->
                            Dest(itinerary[s[1]].activities[s[2]].destination).entrance_fee
                               * prefs.pax])
        /\ result.total_distance_km
              = SumOver(NonTravelIndexes,
                        [i \in NonTravelIndexes |-> itinerary[i].total_distance])
        /\ result.total_travel_time_minutes
              = SumOver(1..Len(itinerary),
                        [i \in 1..Len(itinerary) |-> itinerary[i].total_travel_time])

\* origin travel, a rest day, paid entrances and several destinations
C16_Witness ==
    /\ Returned
    /\ OriginTravel
    /\ RestIndexes # {}
    /\ result.total_destinations >= 3
    /\ result.total_entrance_fees > 0
    /\ result.total_distance_km > 0
    /\ result.total_travel_time_minutes > 2 * ((prefs.travel_time_hours * 60) \div 100)

----------------------------------------------------------------------------
\* Determinism

\* the dates of the DayPlans are those of a run that reads the clock at now
DatesOfRunAt(now) ==
    \A i \in 1..Len(itinerary) :
        itinerary[i].date = DateOf(_parse_start_date(prefs, now), itinerary[i].day_number)

\* C17: a run returns what every run of the same preferences over the same
\* catalog returns, the dates of the DayPlans included, with or without a
\* start_date: its result does not depend on when the run is made.
C17_Deterministic ==
    Returned => \A now \in Nows : DatesOfRunAt(now)

----------------------------------------------------------------------------
\* Termination

\* an iteration of the filler loop passes a candidate, adds an activity or
\* leaves the loop; an iteration of the must-visit loop passes a candidate or
\* leaves the loop
LoopProgress ==
    /\ pc = "filler" /\ FillerLoopRuns =>
          \/ sched'.other_dest_index > sched.other_dest_index
          \/ Len(loc'.daily_activities) > Len(loc.daily_activities)
          \/ pc' # "filler"
    /\ pc = "must_visit" => loc'.mv_index > loc.mv_index \/ pc' # "must_visit"

\* C18: every run ends: the handler answers, and on the way each iteration of
\* the must-visit loop and of the filler loop makes progress, also when every
\* candidate is rejected.
C18_Terminates == <>(pc = "responded") /\ [][LoopProgress]_vars

\* a run that ended after every must-visit and every filler was rejected
C18_Witness ==
    /\ Returned
    /\ prefs.must_visit_ids # {}
    /\ sched.other_dests # <<>>
    /\ sched.other_dest_index = Len(sched.other_dests)
    /\ \E d \in DOMAIN sched.must_visit_per_day : sched.must_visit_per_day[d] # <<>>
    /\ Len(itinerary) >= 3
    /\ AllDaysEmpty

----------------------------------------------------------------------------
\* The daily target

\* the target of the i-th DayPlan: the first-or-last-day value of the pace on
\* the first and on the last active day of the trip, the mid-trip value between
DayTarget(i) ==
    IF \A j \in NonTravelIndexes : i <= j THEN PACE_RULES[prefs.pace_preference].activities_per_day[1]
    ELSE IF \A j \in NonTravelIndexes : j <= i
    THEN PACE_RULES[prefs.pace_preference].activities_per_day[1]
    ELSE PACE_RULES[prefs.pace_preference].activities_per_day[2]

\* C19: a regular day holds at most its target of activities: 2, 3 or 5 (relaxed,
\* moderate, packed) on the first and on the last active day of the trip, 3, 4
\* or 7 on the days between, with or without origin travel time.
C19_DailyTarget ==
    Returned =>
        \A i \in 1..Len(itinerary) :
            itinerary[i].day_type = "regular" =>
                Len(itinerary[i].activities) <= DayTarget(i)

----------------------------------------------------------------------------
\* The filler phase

\* the filler the shared index points at
Candidate == sched.other_dests[sched.other_dest_index + 1]

\* the offset of a destination, the placeholder point for one without coordinates
OffsetOf(id) == IF Dest(id).latitude = <<>> THEN 0 ELSE Dest(id).latitude[1]

\* minutes of travel between two offsets at 40 km/h, truncated
LegMinutes(from, to) == (Abs(from - to) * 60) \div 40

\* the filler loop is at a candidate that is too far from the current location
CandidateTooFar ==
    /\ pc = "filler" /\ FillerLoopRuns
    /\ LegMinutes(loc.last_lat, OffsetOf(Candidate)) > prefs.max_travel_time

\* the filler loop is at a candidate that is near enough but over the daily budget
CandidateOverBudget ==
    /\ pc = "filler" /\ FillerLoopRuns
    /\ LegMinutes(loc.last_lat, OffsetOf(Candidate)) <= prefs.max_travel_time
    /\ loc.total_travel + LegMinutes(loc.last_lat, OffsetOf(Candidate))
          > PACE_RULES[prefs.pace_preference].max_daily_travel_time

\* a step of the planner, as the filler phase is specified
FillerPhaseStep ==
    /\ CandidateTooFar =>
          /\ sched'.other_dest_index = sched.other_dest_index + 1
          /\ loc'.daily_activities = loc.daily_activities
          /\ pc' = "filler"
    /\ CandidateOverBudget =>
          /\ sched'.other_dest_index = sched.other_dest_index
          /\ loc'.daily_activities = loc.daily_activities
          /\ pc' = "close"
    \* a filler is scheduled only as the candidate, and the index then passes it
    /\ pc = "filler" /\ Len(loc'.daily_activities) > Len(loc.daily_activities) =>
          /\ loc'.daily_activities[Len(loc'.daily_activities)].destination = Candidate
          /\ sched'.other_dest_index = sched.other_dest_index + 1
    /\ pc = "must_visit" /\ Len(loc'.daily_activities) > Len(loc.daily_activities) =>
          loc'.daily_activities[Len(loc'.daily_activities)].destination
             \notin Range(sched.other_dests)
    \* the index never goes back, and only the filler loop moves it
    /\ pc \notin {"request", "generate", "build"} =>
          /\ sched'.other_dests = sched.other_dests
          /\ sched'.other_dest_index >= sched.other_dest_index
          /\ \A i, j \in 1..Len(sched.other_dests) :
                sched.other_dests[i] = sched.other_dests[j] => i = j
    /\ pc \notin {"request", "generate", "build", "filler"} =>
          sched'.other_dest_index = sched.other_dest_index

\* C20: a filler too far from the current location is passed for good (the
\* shared index moves past it, it is not scheduled then or on a later day); a
\* filler that would put the day over max_daily_travel_time ends the filling of
\* the day and leaves the index on it, so it is the first filler tried on the
\* next active day.
C20_FillerRejections == [][FillerPhaseStep]_vars

\* the first filler tried today is the one that ended yesterday's filling over
\* the budget, and it is now too far from the accommodation
C20_Witness ==
    /\ CandidateTooFar
    /\ loc.daily_activities = <<>>
    /\ sched.other_dest_index > 0
    /\ itinerary # <<>>
    /\ LET last == itinerary[Len(itinerary)]
           from == OffsetOf(last.activities[Len(last.activities)].destination)
       IN  /\ last.day_type = "regular"
           /\ last.activities # <<>>
           /\ LegMinutes(from, OffsetOf(Candidate)) <= prefs.max_travel_time
           /\ LegSum(last) + LegMinutes(from, OffsetOf(Candidate))
                 > PACE_RULES[prefs.pace_preference].max_daily_travel_time

----------------------------------------------------------------------------
\* The must-visit phase

\* a day is being filled
InDay == pc \in {"must_visit", "filler", "close"}

\* the must-visit destinations assigned to the day being filled
TodayMustVisit == sched.must_visit_per_day[sched.day]

\* the offset the day starts from: the accommodation, the placeholder without one
StartOffset ==
    IF sched.current_accommodation # 0 /\ Accom(sched.current_accommodation).latitude # <<>>
    THEN Accom(sched.current_accommodation).latitude[1]
    ELSE 0

\* the k-th must-visit of the day is in an activity of the day
ScheduledToday(k) ==
    \E a \in 1..Len(loc.daily_activities) :
        loc.daily_activities[a].destination = TodayMustVisit[k]

\* the activities of the day that visit must-visits placed before the k-th
ScheduledBefore(k) ==
    SelectSeq(loc.daily_activities,
              LAMBDA a : \E j \in 1..(k - 1) : TodayMustVisit[j] = a.destination)

\* where the traveler is, and the travel of the day, when the k-th is tried
OffsetBefore(k) ==
    IF ScheduledBefore(k) = <<>> THEN StartOffset
    ELSE OffsetOf(ScheduledBefore(k)[Len(ScheduledBefore(k))].destination)

TravelBefore(k) ==
    SumSeq([a \in 1..Len(ScheduledBefore(k)) |-> ScheduledBefore(k)[a].travel_time_from_previous])

LegTo(k) == LegMinutes(OffsetBefore(k), OffsetOf(TodayMustVisit[k]))

\* the k-th must-visit was tried and rejected: its leg is over 1.5 x max_travel_time
RejectedTooFar(k) ==
    /\ k < loc.mv_index /\ ~ScheduledToday(k)
    /\ 2 * LegTo(k) > 3 * prefs.max_travel_time

\* the k-th must-visit was tried and rejected: with its leg the travel of the
\* day would be over 1.5 x max_daily_travel_time
RejectedOverDailyBudget(k) ==
    /\ k < loc.mv_index /\ ~ScheduledToday(k)
    /\ 2 * LegTo(k) <= 3 * prefs.max_travel_time
    /\ 2 * (TravelBefore(k) + LegTo(k))
          > 3 * PACE_RULES[prefs.pace_preference].max_daily_travel_time

\* C21: in the must-visit phase a must-visit whose leg is over 1.5 x
\* max_travel_time is skipped and the later ones are still tried, and after a
\* must-visit is rejected over 1.5 x max_daily_travel_time no further
\* must-visit is added on that day.
C21_MustVisitRejections ==
    /\ [](InDay =>
            \A k \in 1..Len(TodayMustVisit) :
                RejectedOverDailyBudget(k) =>
                    \A j \in (k + 1)..Len(TodayMustVisit) : ~ScheduledToday(j))
    /\ [][(pc = "must_visit" /\ loc.mv_index <= Len(TodayMustVisit)
              /\ loc.activities_added < loc.num_activities
              /\ 2 * LegMinutes(loc.last_lat, OffsetOf(TodayMustVisit[loc.mv_index]))
                    > 3 * prefs.max_travel_time)
            => (/\ pc' = "must_visit"
                /\ loc'.mv_index = loc.mv_index + 1
                /\ loc'.daily_activities = loc.daily_activities)]_vars

----------------------------------------------------------------------------
\* The end of the day by the clock

\* the day being filled has an activity and its clock has passed latest_end
ClockPastEnd ==
    /\ pc \in {"must_visit", "filler", "close"}
    /\ loc.daily_activities # <<>>
    /\ PastLatestEnd(prefs, loc)

\* C22: once the running clock of a day, after an activity's duration and
\* buffer, exceeds the pace's latest_end, no further activity (must-visit or
\* filler) is added to that day.
C22_NoActivityAfterLatestEnd ==
    [][ClockPastEnd => Len(loc'.daily_activities) <= Len(loc.daily_activities)]_vars

----------------------------------------------------------------------------
\* The order of the fillers

\* the scheduling of the days has begun
Scheduling == pc \in {"day_loop", "must_visit", "filler", "close", "serialize"}

\* the offset of the first selected accommodation, the placeholder point
\* without one
FirstAccommodationOffset ==
    IF accommodations # <<>> /\ Accom(accommodations[1]).latitude # <<>>
    THEN Accom(accommodations[1]).latitude[1]
    ELSE 0

DistanceFromAccommodation(id) == Abs(OffsetOf(id) - FirstAccommodationOffset)

\* the fillers scheduled so far, in schedule order across the days
ScheduledFillers ==
    SelectSeq(ActivitiesOf(itinerary) \o loc.daily_activities,
              LAMBDA a : a.destination \notin prefs.must_visit_ids)

NearestFirst(ids) ==
    \A i, j \in 1..Len(ids) :
        i < j => DistanceFromAccommodation(ids[i]) <= DistanceFromAccommodation(ids[j])

\* C23: the fillers are ordered by distance from the first selected
\* accommodation, nearest first, and consumed through one index that never
\* decreases and is not reset between days; so the fillers scheduled over the
\* trip, in schedule order, have non-decreasing distance from the accommodation.
C23_FillerOrder ==
    /\ [](Scheduling =>
            /\ NearestFirst(sched.other_dests)
            /\ \A i \in 1..Len(sched.other_dests) :
                   sched.other_dests[i] \notin prefs.must_visit_ids
            /\ sched.other_dest_index \in 0..Len(sched.other_dests)
            /\ NearestFirst([k \in 1..Len(ScheduledFillers) |->
                                ScheduledFillers[k].destination])
            /\ \A k \in 1..Len(ScheduledFillers) :
                   \E i \in 1..sched.other_dest_index :
                       sched.other_dests[i] = ScheduledFillers[k].destination)
    /\ [][Scheduling => sched'.other_dest_index >= sched.other_dest_index]_vars

\* a trip ends with fillers at different distances on different days, one
\* candidate having been passed over
C23_Witness ==
    /\ pc = "serialize"
    /\ accommodations # <<>>
    /\ sched.other_dest_index > Len(ScheduledFillers)
    /\ \E i, j \in 1..Len(itinerary) :
          /\ i < j
          /\ \E a \in 1..Len(itinerary[i].activities), b \in 1..Len(itinerary[j].activities) :
                /\ itinerary[i].activities[a].destination \notin prefs.must_visit_ids
                /\ itinerary[j].activities[b].destination \notin prefs.must_visit_ids
                /\ DistanceFromAccommodation(itinerary[i].activities[a].destination)
                     < DistanceFromAccommodation(itinerary[j].activities[b].destination)

----------------------------------------------------------------------------
\* The distribution of the must-visit destinations

\* the must-visit destinations in deduplicated pool order
MustVisitPool ==
    SelectSeq(Dedup(Flatten(clusters), {}), LAMBDA i : i \in prefs.must_visit_ids)

\* the rest day of the trip, if it has one
RestDayNumbers ==
    IF ActiveCount >= 5 THEN {FirstActiveDay + (ActiveCount \div 2)} ELSE {}

\* the activity days that are not rest days, in increasing order
NonRestDays ==
    SelectSeq([i \in 1..(prefs.days - FirstActiveDay + 1) |-> FirstActiveDay + i - 1],
              LAMBDA d : d \notin RestDayNumbers)

\* the must-visit destinations assigned to day d
AssignedTo(d) ==
    IF d \in DOMAIN sched.must_visit_per_day THEN sched.must_visit_per_day[d] ELSE <<>>

\* C24: the i-th must-visit destination (0-based, in deduplicated pool order)
\* is assigned to active_days[i mod n], the n non-rest activity days taken in
\* increasing order; no must-visit is assigned to a rest or travel day, and the
\* numbers assigned to two active days differ by at most one.
C24_RoundRobin ==
    (Scheduling /\ prefs.must_visit_ids # {}) =>
        LET pool == MustVisitPool
            active_days == NonRestDays
            n == Len(active_days)
            assigned == [k \in 1..n |-> AssignedTo(active_days[k])]
        IN  n > 0 =>
            /\ \A k \in 1..n :
                   /\ Len(assigned[k]) = Cardinality({i \in 1..Len(pool) : ((i - 1) % n) + 1 = k})
                   /\ \A m \in 1..Len(assigned[k]) : assigned[k][m] = pool[(m - 1) * n + k]
            /\ \A d \in DOMAIN sched.must_visit_per_day :
                   (\A k \in 1..n : active_days[k] # d) => AssignedTo(d) = <<>>
            /\ \A i \in 1..Len(itinerary) :
                   (itinerary[i].is_rest_day \/ itinerary[i].is_travel_day)
                       => AssignedTo(itinerary[i].day_number) = <<>>
            /\ \A j, k \in 1..n : Len(assigned[j]) - Len(assigned[k]) \in {-1, 0, 1}

\* three must-visits over two active days: two on the first, one on the second
C24_Witness ==
    /\ pc = "serialize"
    /\ Len(MustVisitPool) = 3
    /\ Len(NonRestDays) = 2
    /\ Len(AssignedTo(NonRestDays[1])) = 2
    /\ Len(AssignedTo(NonRestDays[2])) = 1

----------------------------------------------------------------------------
\* The totals of a day

\* sum of distance_from_previous over the activities of a DayPlan
DistanceSum(d) == SumSeq([k \in 1..Len(d.activities) |-> d.activities[k].distance_from_previous])

\* the DayPlan has an accommodation with coordinates
HasLocatedAccommodation(d) ==
    d.accommodation # 0 /\ Accom(d.accommodation).latitude # <<>>

\* the offset the activities of a DayPlan start from
OriginOf(d) == IF HasLocatedAccommodation(d) THEN Accom(d.accommodation).latitude[1] ELSE 0

\* the distance from the last destination of a DayPlan back to its accommodation
ReturnDistance(d) ==
    Abs(OffsetOf(d.activities[Len(d.activities)].destination)
          - Accom(d.accommodation).latitude[1])

\* every activity of a DayPlan is a visit whose leg leads from the previous
\* location to its destination
LegsAreVisits(d) ==
    \A k \in 1..Len(d.activities) :
        LET from == IF k = 1 THEN OriginOf(d) ELSE OffsetOf(d.activities[k - 1].destination)
            to == OffsetOf(d.activities[k].destination)
        IN  /\ d.activities[k].activity_type = "destination"
            /\ d.activities[k].destination \in DestIds
            /\ d.activities[k].distance_from_previous = Abs(from - to)
            /\ d.activities[k].travel_time_from_previous = LegMinutes(from, to)

\* C25: a regular DayPlan with an activity and an accommodation with
\* coordinates has total_travel_time = the sum of its legs + the travel time
\* from the last destination back to the accommodation, and total_distance =
\* the sum of the leg distances + the return distance; the return leg is not
\* an Activity; a regular day without activity or without accommodation has the
\* sums of its legs as totals.
C25_ReturnLeg ==
    \A i \in 1..Len(itinerary) :
        LET d == itinerary[i]
        IN  d.day_type = "regular" =>
              /\ LegsAreVisits(d)
              /\ d.total_activities = Len(d.activities)
              /\ IF d.activities # <<>> /\ HasLocatedAccommodation(d)
                 THEN /\ d.total_travel_time
                           = LegSum(d) + LegMinutes(ReturnDistance(d), 0)
                      /\ d.total_distance = DistanceSum(d) + ReturnDistance(d)
                 ELSE /\ d.total_travel_time = LegSum(d)
                      /\ d.total_distance = DistanceSum(d)

\* a day with an accommodation ends away from it, and a day has no activity
C25_Witness ==
    /\ pc = "serialize"
    /\ \E i \in 1..Len(itinerary) :
          /\ itinerary[i].day_type = "regular"
          /\ Len(itinerary[i].activities) >= 2
          /\ HasLocatedAccommodation(itinerary[i])
          /\ ReturnDistance(itinerary[i]) > 0
          /\ itinerary[i].total_travel_time > LegSum(itinerary[i])
    /\ \E i \in 1..Len(itinerary) :
          itinerary[i].day_type = "regular" /\ itinerary[i].activities = <<>>

----------------------------------------------------------------------------
\* Missing coordinates

\* an accommodation is selected, and it or an eligible destination has no
\* coordinates
NullCoordinateRun ==
    /\ planner = "invoked"
    /\ accommodations # <<>>
    /\ \/ \E k \in 1..Len(accommodations) : Accom(accommodations[k]).latitude = <<>>
       \/ \E k \in 1..Len(ranked_destinations) :
              Dest(ranked_destinations[k][1]).latitude = <<>>

\* C26: when an accommodation is selected and an eligible destination (or the
\* accommodation) has null coordinates, clustering and scheduling complete
\* without raising, the placeholder point stands in for the missing coordinates
\* in the distances, and an itinerary is returned.
C26_NullCoordinates ==
    NullCoordinateRun =>
        /\ pc = "responded" => Returned
        /\ \A i \in 1..Len(itinerary) :
               itinerary[i].day_type = "regular" => LegsAreVisits(itinerary[i])

----------------------------------------------------------------------------
\* The rendered times

\* an HH:MM value as a clock value, in minutes of its day
ClockValue(hm) == hm[1] * 60 + hm[2]

\* C27: within every DayPlan the activities are chronological as rendered:
\* start_time <= end_time for each activity and start_time >= the end_time of
\* the activity before it, compared as HH:MM clock values, for all valid
\* preferences, a same-day arrival with travel_time_hours in [0, 24] included.
C27_Chronological ==
    ~InvalidRequest =>
        \A i \in 1..Len(itinerary) :
            \A k \in 1..Len(itinerary[i].activities) :
                LET a == itinerary[i].activities[k]
                IN  /\ ClockValue(a.start_time) <= ClockValue(a.end_time)
                    /\ k > 1 => ClockValue(a.start_time)
                                  >= ClockValue(itinerary[i].activities[k - 1].end_time)

----------------------------------------------------------------------------
\* One visit per destination

\* the activities scheduled so far, the day being filled included
ScheduledSoFar == ActivitiesOf(itinerary) \o loc.daily_activities

\* the destinations that lie in two clusters
InTwoClusters ==
    {id \in DestIds :
        \E i, j \in 1..Len(clusters) :
            i < j /\ id \in Range(clusters[i]) /\ id \in Range(clusters[j])}

\* C28: no destination id appears in more than one Activity of the itinerary,
\* a destination within 30 km of two selected accommodations (and so in two
\* clusters) and a filler rejected on one day and tried again on a later day
\* included.
C28_NoRepeatedDestination ==
    LET acts == ScheduledSoFar
    IN  \A i, j \in 1..Len(acts) : i # j => acts[i].destination # acts[j].destination

\* a destination of two clusters is scheduled, and a filler refused for the
\* daily budget on one day is scheduled on a later day
C28_Witness ==
    /\ pc = "serialize"
    /\ \E id \in InTwoClusters : TimesScheduled(id) = 1
    /\ \E i, j \in 1..Len(itinerary) :
          /\ i < j
          /\ itinerary[i].day_type = "regular" /\ itinerary[j].day_type = "regular"
          /\ itinerary[i].activities # <<>>
          /\ Len(itinerary[i].activities) < DayTarget(itinerary[i].day_number)
          /\ ClockValue(itinerary[i].activities[Len(itinerary[i].activities)].end_time)
                + PACE_RULES[prefs.pace_preference].buffer_time
                <= PACE_RULES[prefs.pace_preference].latest_end
          /\ \E k \in 1..Len(itinerary[j].activities) :
                itinerary[j].activities[k].destination \notin prefs.must_visit_ids
    /\ prefs.travel_time_hours = 0

----------------------------------------------------------------------------
\* Only eligible destinations are scheduled

\* the must-visit ids the hard filter refuses
RefusedMustVisit == {id \in prefs.must_visit_ids \cap DestIds : ~HardEligible(prefs, Dest(id))}

\* C29: every destination scheduled in an Activity passed the hard filter: one
\* that is inactive, excluded by id or by category, above the traveler's budget
\* tier or without a required accessibility flag is never scheduled, even when
\* its id is in must_visit_ids and even when the fallback top-N cluster is used.
C29_OnlyEligibleScheduled ==
    (planner # "none" /\ prefs.budget_category \in {"low", "medium", "high"}) =>
        LET acts == ScheduledSoFar
        IN  \A k \in 1..Len(acts) :
                /\ acts[k].destination \in DestIds
                /\ HardEligible(prefs, Dest(acts[k].destination))

\* a trip over the top-N cluster whose must-visit list names destinations the
\* filter refuses: other must-visits and fillers are scheduled
C29_Witness ==
    /\ pc = "serialize"
    /\ accommodations = <<>>
    /\ Cardinality(RefusedMustVisit) >= 2
    /\ \E id \in prefs.must_visit_ids : TimesScheduled(id) = 1
    /\ \E id \in DestIds \ prefs.must_visit_ids : TimesScheduled(id) = 1

----------------------------------------------------------------------------
\* The command-line planner: ItineraryPlanner of
\* destination/management/commands/planner.py.  It plans over the rows the
\* command loads (is_active=True, as dictionaries); preferences name the
\* destinations (must_visit, exclude_destinations), for which the model uses
\* the ids of the rows.

\* Destination.objects.filter(is_active=True).values()
CliDestinations == SelectSeq(Destinations, LAMBDA d : d.is_active)

\* Accommodation.objects.filter(is_active=True).values()
CliAccommodations == SelectSeq(Accommodations, LAMBDA a : a.is_active)

\* the preferences the planner is constructed with
CliPreferences ==
    {[BaseData EXCEPT !.days = d, !.pace_preference = pace, !.budget_category = b,
                      !.must_visit_ids = mv, !.max_travel_time = mtt,
                      !.include_accommodation = inc, !.exclude_destination_ids = ex] :
        d \in {1, 2, 3, 5, 6}, pace \in Paces, b \in {"low", "high"},
        mv \in {{}, {5, 8}, {1, 2, 3}}, mtt \in {20, 120}, inc \in BOOLEAN,
        ex \in {{6}, {}}}

\* ItineraryPlanner._filter_destinations
Cli_filter_destinations(p) ==
    LET kept == SelectSeq(CliDestinations, LAMBDA d :
                    /\ d.id \notin p.exclude_destination_ids
                    /\ BudgetLevel(d.budget_category) <= BudgetLevel(p.budget_category)
                    /\ (p.has_children => d.kid_friendly)
                    /\ (p.has_seniors => d.senior_friendly)
                    /\ (p.has_disabilities => d.wheelchair_friendly)
                    /\ d.category \notin p.exclude_categories
                    /\ d.status = "active")
    IN  [i \in 1..Len(kept) |-> kept[i].id]

\* the score of one destination; duration = dest.get('avg_duration_minutes', 90)
\* is the value of the row, the key being there
CliScore(p, d) ==
    InterestScore(p, d)
    + (IF d.id \in p.must_visit_ids THEN 50 ELSE 0)
    + (IF p.pace_preference = "relaxed" /\ d.avg_duration_minutes >= 90 THEN 5
       ELSE IF p.pace_preference = "packed" /\ d.avg_duration_minutes <= 60 THEN 5
       ELSE IF p.pace_preference = "moderate" THEN 3
       ELSE 0)
    + (IF d.entrance_fee = 0 THEN 2 ELSE 0)

\* ItineraryPlanner._score_destinations: the ids, sorted by score, highest first
Cli_score_destinations(p, dests) ==
    Firsts(StableSort([i \in 1..Len(dests) |-> <<dests[i], -CliScore(p, Dest(dests[i]))>>]))

\* ItineraryPlanner._select_accommodations
Cli_select_accommodations(p) ==
    IF ~p.include_accommodation THEN <<>>
    ELSE LET filtered == SelectSeq(CliAccommodations, LAMBDA a :
                             /\ BudgetLevel(a.budget_category) <= BudgetLevel(p.budget_category)
                             /\ (p.accommodation_types # {} => a.type \in p.accommodation_types)
                             /\ (p.has_pets => a.pet_friendly)
                             /\ (p.has_disabilities => a.wheelchair_friendly)
                             /\ a.status = "active")
             kept == Prefix(filtered, IF p.days <= 3 THEN 1 ELSE 2)
         IN  [i \in 1..Len(kept) |-> kept[i].id]

\* The inner loop of the clustering for one accommodation; the coordinates of
\* dest are converted before anything else.  st = [nearby, must_visit_dests, raised]
RECURSIVE CliNearbyLoop(_, _, _, _)
CliNearbyLoop(p, acc, ranked, st) ==
    IF ranked = <<>> \/ st.raised THEN st
    ELSE LET dest == Dest(Head(ranked))
             next ==
                 IF FloatRaises(dest.latitude) THEN [st EXCEPT !.raised = TRUE]
                 ELSE IF dest.id \in p.must_visit_ids
                 THEN IF dest.id \notin Range(st.must_visit_dests)
                      THEN [st EXCEPT !.must_visit_dests = Append(@, dest.id),
                                      !.nearby = Append(@, dest.id)]
                      ELSE st
                 ELSE IF _calculate_distance(acc.latitude[1], dest.latitude[1]) <= 30
                      THEN [st EXCEPT !.nearby = Append(@, dest.id)]
                      ELSE st
         IN  CHOOSE r \in {CliNearbyLoop(p, acc, rest, n) : rest \in {Tail(ranked)},
                                                            n \in {next}} : TRUE

\* The outer loop of the clustering; float(acc.get('latitude', 0)) comes first.
\* st = [clusters, must_visit_dests, raised]
RECURSIVE CliClusterLoop(_, _, _, _)
CliClusterLoop(p, accs, ranked, st) ==
    IF accs = <<>> \/ st.raised THEN st
    ELSE IF FloatRaises(Accom(Head(accs)).latitude) THEN [st EXCEPT !.raised = TRUE]
    ELSE LET After(r) ==
                 [clusters |-> IF r.nearby # <<>> THEN Append(st.clusters, r.nearby)
                               ELSE st.clusters,
                  must_visit_dests |-> r.must_visit_dests,
                  raised |-> r.raised]
             nearby_of_acc ==
                 CliNearbyLoop(p, Accom(Head(accs)), ranked,
                               [nearby |-> <<>>, must_visit_dests |-> st.must_visit_dests,
                                raised |-> FALSE])
         IN  CHOOSE c \in {CliClusterLoop(p, rest, ranked, n) :
                              rest \in {Tail(accs)},
                              n \in {After(r) : r \in {nearby_of_acc}}} : TRUE

\* ItineraryPlanner._cluster_destinations:
\* [raised |-> a TypeError left the method, clusters |-> its result otherwise]
Cli_cluster_destinations(p, ranked, accs) ==
    IF accs = <<>>
    THEN [raised |-> FALSE, clusters |-> <<Prefix(ranked, TopCount(p))>>]
    ELSE LET r == CliClusterLoop(p, accs, ranked,
                                 [clusters |-> <<>>, must_visit_dests |-> <<>>, raised |-> FALSE])
         IN  IF r.raised THEN [raised |-> TRUE, clusters |-> <<>>]
             ELSE IF r.clusters = <<>>
             THEN [raised |-> FALSE,
                   clusters |-> <<EnsureMustVisit(p, ranked, Prefix(ranked, TopCount(p)))>>]
             ELSE [raised |-> FALSE, clusters |-> r.clusters]

\* rest_days = [self.prefs.days // 2] for trips of 5 days and more
CliRestDays(p) == IF p.days >= 5 THEN {p.days \div 2} ELSE {}

\* active_days
CliActiveDays(p) == SelectSeq([i \in 1..p.days |-> i], LAMBDA d : d \notin CliRestDays(p))

\* must_visit_per_day, with the empty list where the dict has no key
CliMustVisitPerDay(p, mv) ==
    LET active_days == CliActiveDays(p)
        empty == [d \in 1..p.days |-> <<>>]
    IN  IF mv # <<>> /\ active_days # <<>>
        THEN Distribute(mv, 0, active_days, empty)
        ELSE empty

\* num_activities
CliNumActivities(p, day) ==
    IF day = 1 \/ day = p.days THEN PACE_RULES[p.pace_preference].activities_per_day[1]
    ELSE PACE_RULES[p.pace_preference].activities_per_day[2]

\* the Activity of a scheduled destination; t is current_time after the travel
CliActivity(dest, t, travel_time) ==
    [destination |-> dest.id,
     start_time |-> FormatHM(t),
     end_time |-> FormatHM(t + dest.avg_duration_minutes),
     duration_minutes |-> dest.avg_duration_minutes,
     travel_time_from_previous |-> travel_time]

\* a DayPlan of the command-line planner
CliDayPlan(day_number, date, activities, accommodation, total_travel_time, is_rest_day) ==
    [day_number |-> day_number, date |-> date, activities |-> activities,
     accommodation |-> accommodation, total_activities |-> Len(activities),
     total_travel_time |-> total_travel_time, is_rest_day |-> is_rest_day]

\* the locals of a day once the travel to dest is added: current_time and
\* total_travel move before the daily travel limit is tested
CliTravel(l, travel_time) ==
    [l EXCEPT !.current_time = @ + travel_time, !.total_travel = @ + travel_time]

\* the locals of a day once dest is scheduled; l has the travel added
CliSchedule(p, l, dest, travel_time) ==
    [l EXCEPT !.current_time = @ + dest.avg_duration_minutes
                                 + PACE_RULES[p.pace_preference].buffer_time,
              !.daily_activities = Append(@, CliActivity(dest, l.current_time, travel_time)),
              !.last_lat = dest.latitude[1],
              !.activities_added = @ + 1]

\* the command's run: generate_itinerary up to the day loop (steps 1 to 4 and
\* the setup of _build_daily_itinerary)
CliGenerate ==
    /\ pc = "cli_handle"
    /\ \E filtered \in {Cli_filter_destinations(prefs)},
          selected \in {Cli_select_accommodations(prefs)} :
       \E ranked \in {Cli_score_destinations(prefs, filtered)} :
       \E c \in {Cli_cluster_destinations(prefs, ranked, selected)} :
           /\ planner' = "invoked"
           /\ filtered_destinations' = filtered
           /\ ranked_destinations' = [i \in 1..Len(ranked) |->
                                         <<ranked[i], CliScore(prefs, Dest(ranked[i]))>>]
           /\ accommodations' = selected
           /\ IF c.raised
              THEN /\ pc' = "cli_failed"
                   /\ UNCHANGED <<clusters, sched>>
              ELSE /\ clusters' = c.clusters
                   /\ sched' = [current_accommodation |->
                                    IF selected # <<>> THEN selected[1] ELSE 0,
                                current_day |-> 1,
                                day |-> 1,
                                must_visit_per_day |->
                                    CliMustVisitPerDay(prefs, MustVisitDests(prefs, c.clusters)),
                                other_dests |->
                                    SelectSeq(Dedup(Flatten(c.clusters), {}),
                                              LAMBDA i : i \notin prefs.must_visit_ids),
                                other_dest_index |-> 0]
                   /\ pc' = "cli_day_loop"
    /\ UNCHANGED <<entry, request, response, prefs, trip_start_date, itinerary, loc, result>>

\* a rest day
CliRestDay ==
    /\ pc = "cli_day_loop"
    /\ sched.day <= prefs.days
    /\ sched.day \in CliRestDays(prefs)
    /\ \E now \in Nows :
          itinerary' = Append(itinerary,
                              CliDayPlan(sched.day, now + sched.day - 1, <<>>,
                                         sched.current_accommodation, 0, TRUE))
    /\ sched' = [sched EXCEPT !.current_day = @ + 1, !.day = @ + 1]
    /\ UNCHANGED <<pc, entry, request, response, planner, prefs, trip_start_date,
                   filtered_destinations, ranked_destinations, accommodations, clusters,
                   loc, result>>

\* the start of a day that is not a rest day
CliStartDay ==
    /\ pc = "cli_day_loop"
    /\ sched.day <= prefs.days
    /\ sched.day \notin CliRestDays(prefs)
    /\ loc' = [num_activities |-> CliNumActivities(prefs, sched.day),
               daily_activities |-> <<>>,
               current_time |-> PACE_RULES[prefs.pace_preference].earliest_start,
               last_lat |-> IF sched.current_accommodation # 0
                            THEN Accom(sched.current_accommodation).latitude[1]
                            ELSE PlaceholderCoord,
               total_travel |-> 0,
               total_distance |-> 0,
               activities_added |-> 0,
               mv_index |-> 1]
    /\ pc' = "cli_must_visit"
    /\ UNCHANGED <<entry, request, response, planner, prefs, trip_start_date,
                   filtered_destinations, ranked_destinations, accommodations, clusters,
                   itinerary, sched, result>>

\* one iteration of the must-visit loop, or its end
CliMustVisitStep ==
    /\ pc = "cli_must_visit"
    /\ LET day_must_visit == sched.must_visit_per_day[sched.day]
       IN  IF loc.mv_index > Len(day_must_visit)
              \/ loc.activities_added >= loc.num_activities
           THEN pc' = "cli_filler" /\ UNCHANGED loc
           ELSE LET dest == Dest(day_must_visit[loc.mv_index]) IN
                IF FloatRaises(dest.latitude)
                THEN pc' = "cli_failed" /\ UNCHANGED loc
                ELSE LET travel_time == _estimate_travel_time(
                                            _calculate_distance(loc.last_lat, dest.latitude[1]))
                         travelled == CliTravel(loc, travel_time)
                         after == CliSchedule(prefs, travelled, dest, travel_time)
                     IN  IF 2 * travel_time > 3 * prefs.max_travel_time
                         THEN /\ loc' = [loc EXCEPT !.mv_index = @ + 1]
                              /\ UNCHANGED pc
                         ELSE IF 2 * travelled.total_travel
                                   > 3 * PACE_RULES[prefs.pace_preference].max_daily_travel_time
                         THEN /\ loc' = travelled
                              /\ pc' = "cli_filler"
                         ELSE /\ loc' = [after EXCEPT !.mv_index = @ + 1]
                              /\ pc' = IF PastLatestEnd(prefs, after) THEN "cli_filler"
                                       ELSE "cli_must_visit"
    /\ UNCHANGED <<entry, request, response, planner, prefs, trip_start_date,
                   filtered_destinations, ranked_destinations, accommodations, clusters,
                   itinerary, sched, result>>

\* one iteration of the filler loop
CliFillerStep ==
    /\ pc = "cli_filler"
    /\ FillerLoopRuns
    /\ LET dest == Dest(sched.other_dests[sched.other_dest_index + 1]) IN
       IF FloatRaises(dest.latitude)
       THEN pc' = "cli_failed" /\ UNCHANGED <<loc, sched>>
       ELSE LET travel_time == _estimate_travel_time(
                                   _calculate_distance(loc.last_lat, dest.latitude[1]))
                travelled == CliTravel(loc, travel_time)
                after == CliSchedule(prefs, travelled, dest, travel_time)
            IN  IF travel_time > prefs.max_travel_time
                THEN /\ sched' = [sched EXCEPT !.other_dest_index = @ + 1]
                     /\ UNCHANGED <<pc, loc>>
                ELSE IF travelled.total_travel
                          > PACE_RULES[prefs.pace_preference].max_daily_travel_time
                THEN /\ loc' = travelled
                     /\ pc' = "cli_close"
                     /\ UNCHANGED sched
                ELSE /\ loc' = after
                     /\ sched' = [sched EXCEPT !.other_dest_index = @ + 1]
                     /\ pc' = IF PastLatestEnd(prefs, after) THEN "cli_close"
                              ELSE "cli_filler"
    /\ UNCHANGED <<entry, request, response, planner, prefs, trip_start_date,
                   filtered_destinations, ranked_destinations, accommodations, clusters,
                   itinerary, result>>

\* the DayPlan of the day
CliFinishDay ==
    /\ pc = "cli_close" \/ (pc = "cli_filler" /\ ~FillerLoopRuns)
    /\ \E now \in Nows :
          itinerary' = Append(itinerary,
                              CliDayPlan(sched.day, now + sched.day - 1, loc.daily_activities,
                                         sched.current_accommodation, loc.total_travel, FALSE))
    /\ sched' = [sched EXCEPT !.current_day = @ + 1, !.day = @ + 1]
    /\ loc' = NoLoc
    /\ pc' = "cli_day_loop"
    /\ UNCHANGED <<entry, request, response, planner, prefs, trip_start_date,
                   filtered_destinations, ranked_destinations, accommodations, clusters, result>>

\* the end of the day loop: the itinerary is returned and printed
CliReturn ==
    /\ pc = "cli_day_loop"
    /\ sched.day > prefs.days
    /\ pc' = "cli_printed"
    /\ UNCHANGED <<entry, request, response, planner, prefs, trip_start_date,
                   filtered_destinations, ranked_destinations, accommodations, clusters,
                   itinerary, sched, loc, result>>

CliInit ==
    /\ pc = "cli_handle"
    /\ entry = "cli"
    /\ request \in CliPreferences
    /\ prefs = request
    /\ response = NoResponse
    /\ planner = "constructed"
    /\ trip_start_date = 0
    /\ filtered_destinations = <<>>
    /\ ranked_destinations = <<>>
    /\ accommodations = <<>>
    /\ clusters = <<>>
    /\ itinerary = <<>>
    /\ sched = NoSched
    /\ loc = NoLoc
    /\ result = NoResult

CliNext ==
    \/ CliGenerate
    \/ CliRestDay
    \/ CliStartDay
    \/ CliMustVisitStep
    \/ CliFillerStep
    \/ CliFinishDay
    \/ CliReturn

CliSpec == CliInit /\ [][CliNext]_vars

----------------------------------------------------------------------------
\* The travel total of the command-line planner

\* C30: in the command-line planner each non-rest DayPlan's total_travel_time
\* is the sum of travel_time_from_previous over the activities scheduled that
\* day (a leg rejected for the daily travel budget is not counted), and so
\* never exceeds 1.5 x the pace's max_daily_travel_time.
C30_CliTravelTotal ==
    \A i \in 1..Len(itinerary) :
        ~itinerary[i].is_rest_day =>
            /\ itinerary[i].total_travel_time = LegSum(itinerary[i])
            /\ 2 * itinerary[i].total_travel_time
                 <= 3 * PACE_RULES[prefs.pace_preference].max_daily_travel_time

====
